---------------------------- MODULE Spec2Model ----------------------------
(***************************************************************************)
(* State-machine model of the PokemonApp client (Vue 3 + Pinia).           *)
(*                                                                         *)
(* The browser runs one task at a time.  A task (an event handler, a timer *)
(* callback, the continuation of an awaited response) runs to completion,  *)
(* and the reactive watchers it triggered (flush 'pre') run as microtasks  *)
(* before the next task starts.  Each action below is one such task or one *)
(* such watcher run.                                                       *)
(*                                                                         *)
(* The module holds one specification per part of the program:             *)
(*   SpecFilter     the filter store (stores/filter.store)                  *)
(*   SpecFavorites  the favourites composable (usePokemonFavorites)         *)
(*   SpecPokemon    the pokemon store and the home view on top of it        *)
(*   SpecApi        the service functions and the axios error mapping       *)
(*   SpecDebounce   useDebounce / useDebounceWithControls                   *)
(* A specification leaves the variables of the other parts unchanged.      *)
(***************************************************************************)
EXTENDS Integers, Sequences, FiniteSets, TLC

VARIABLES
    \* ---- browser
    timers,               \* pending setTimeout timers: records [id, value, remaining]
    nextTimerId,          \* the id the next setTimeout returns (ids are never reused)
    ev,                   \* the operation that made the last step (history)
    \* ---- filter store
    searchQuery,
    debouncedSearchQuery,
    selectedType,
    availableTypes,
    isLoadingTypes,
    typesError,
    searchDebounceTimer,  \* 0 models null
    searchWatcher,        \* watch(searchQuery): [old |-> last value seen, queued |-> job queued]
    sinceChange,          \* ms since searchQuery last changed, capped (history)
    \* ---- favourites composable (module-level state) and localStorage
    favorites,
    favoritesLoaded,
    favStorage,           \* text under 'pokemon-app-favorites'; <<>> models no item
    favWatcherQueued,     \* the job of watch(favorites, {deep: true}) is queued
    favSaveFailed,        \* the last setItem of the favourites threw (history)
    \* ---- pokemon store
    pokemons,
    currentPokemon,       \* NoPokemon models null
    totalCount,
    isLoading,
    error,
    currentPage,
    itemsPerPage,
    pokemonCache,         \* the Map's values (one per id)
    filters,              \* the store's own filters: [search, type]
    calls,                \* store actions waiting on the network, in the order issued
    lastList,             \* the fetchPokemons call issued last and how it ended (history)
    route,                \* the view the router shows: "none", "home" or "detail"
    \* ---- service functions
    settled,              \* the last call of a service function and how it settled
    \* ---- useDebounce / useDebounceWithControls
    sourceRef,
    debouncedValue,
    isPending,
    timeoutId,            \* 0 models null
    latestValue,
    delay,
    withControls,         \* the instance was made by useDebounceWithControls
    debounceWatcher,      \* watch(sourceRef): active until stopped, job queued
    mounted,              \* the owning component is mounted
    atUnmount,            \* what the instance showed when it unmounted (history)
    sinceSource,          \* ms since the source last changed, capped at delay (history)
    debounceLog,          \* the debounce cancel() ended, and whether a pending value
                          \* was replaced since the last timer ran (history)
    \* ---- PokemonCard
    cardPokemon,          \* the pokemon prop of the mounted card (its id); 0: no card
    imageError,
    emitted,              \* the events the card has emitted since it was mounted
    \* ---- the browser's theme environment
    systemDark,           \* matchMedia('(prefers-color-scheme: dark)').matches
    rootDark,             \* the html element carries the class 'dark'
    \* ---- useDarkMode (module-level state) and localStorage
    isDarkMode,
    darkStorage,          \* text under 'pokemon-app-dark-mode'; Null models no item
    darkLoaded,           \* the module has been evaluated on this page
    darkAtLoad,           \* what the page was loaded with (history)
    userChose,            \* the user has picked a theme at some time (history)
    \* ---- ui store and localStorage
    uiIsDarkMode,         \* the store's isDarkMode
    themeInitialized,
    themeStorage,         \* text under 'pokemon-app-theme'; Null models no item
    uiCreated,            \* the store has been created on this page
    themeListeners,       \* listeners the store has put on the system preference
    \* ---- wall clock
    now,                  \* time of day, counted round a dial of ClockPeriod ticks
    \* ---- pokemon service: one getAllTypes() call
    typesCall             \* its position, the detail promises and what it settled with

browserVars == <<timers, nextTimerId, ev>>
filterVars == <<searchQuery, debouncedSearchQuery, selectedType, availableTypes,
                isLoadingTypes, typesError, searchDebounceTimer, searchWatcher,
                sinceChange>>
favVars == <<favorites, favoritesLoaded, favStorage, favWatcherQueued, favSaveFailed>>
pokeVars == <<pokemons, currentPokemon, totalCount, isLoading, error, currentPage,
              itemsPerPage, pokemonCache, filters, calls, lastList, route>>
debounceVars == <<sourceRef, debouncedValue, isPending, timeoutId, latestValue, delay,
                  withControls, debounceWatcher, mounted, atUnmount, sinceSource,
                  debounceLog>>
cardVars == <<cardPokemon, imageError, emitted>>
darkVars == <<systemDark, rootDark, isDarkMode, darkStorage, darkLoaded, darkAtLoad,
              userChose>>
themeVars == <<uiIsDarkMode, themeInitialized, themeStorage, uiCreated, themeListeners>>
uiVars == <<cardVars, darkVars, themeVars, now, typesCall>>
vars == <<browserVars, filterVars, favVars, pokeVars, settled, debounceVars, uiVars>>

\* What the actions of one part leave alone in the others.
FilterFrame == UNCHANGED <<favVars, pokeVars, settled, debounceVars, uiVars>>
FavFrame == UNCHANGED <<timers, nextTimerId, filterVars, pokeVars, settled, debounceVars,
                       uiVars>>
PokeFrame == UNCHANGED <<timers, nextTimerId, favVars, searchQuery, availableTypes,
                         isLoadingTypes, typesError, searchDebounceTimer, searchWatcher,
                         sinceChange, settled, debounceVars, uiVars>>
ApiFrame == UNCHANGED <<timers, nextTimerId, filterVars, favVars, pokeVars, debounceVars,
                       uiVars>>
DebounceFrame == UNCHANGED <<filterVars, favVars, pokeVars, settled, uiVars>>

\* JavaScript null, for the string-valued refs.
Null == "null"

(***************************************************************************)
(* Bounds                                                                  *)
(***************************************************************************)
\* Timers a run may create (setTimeout ids grow without bound in a browser).
MaxTimers == 4
\* Time advances in steps of TickMs milliseconds.
TickMs == 100
\* Pokemon a user may mark as favourite: ids 1..MaxFavId.
MaxFavId == 2
\* The server's catalogue: Pokemon 1..ServerCount.
ServerCount == 3
\* The value itemsPerPage runs with (the ref starts at 20 and the store never
\* writes it); small pages keep the lists of a page enumerable.
PageSize == 2
\* Store actions that may wait on the network at the same time.
MaxInFlight == 2

(***************************************************************************)
(* The state of a part before anything of it has run; a specification      *)
(* keeps the parts it does not exercise in this state.                      *)
(***************************************************************************)
FilterRest ==
    /\ searchQuery = <<>>
    /\ debouncedSearchQuery = <<>>
    /\ selectedType = Null
    /\ availableTypes = <<>>
    /\ isLoadingTypes = FALSE
    /\ typesError = Null
    /\ searchDebounceTimer = 0
    /\ searchWatcher = [old |-> <<>>, queued |-> FALSE]
    /\ sinceChange = 0

FavRest ==
    /\ favorites = <<>>
    /\ favoritesLoaded = FALSE
    /\ favStorage = <<>>
    /\ favWatcherQueued = FALSE
    /\ favSaveFailed = FALSE

NoPokemon == [id |-> 0, name |-> <<>>, types |-> <<>>, height |-> 0]

NoList == [page |-> 0, outcome |-> "none", pokemons |-> <<>>]

NoFilters == [search |-> <<>>, type |-> Null]

PokeRest ==
    /\ pokemons = <<>>
    /\ currentPokemon = NoPokemon
    /\ totalCount = 0
    /\ isLoading = FALSE
    /\ error = Null
    /\ currentPage = 1
    /\ itemsPerPage = PageSize
    /\ pokemonCache = {}
    /\ filters = NoFilters
    /\ calls = <<>>
    /\ lastList = NoList
    /\ route = "none"

ApiRest == settled = [state |-> "idle"]

NothingCancelled ==
    [cancelled |-> FALSE, value |-> "", debounced |-> "", replaced |-> FALSE]

NotUnmounted ==
    [done |-> FALSE, debounced |-> "", source |-> "", pending |-> FALSE, clock |-> 0]

DebounceRest ==
    /\ sourceRef = ""
    /\ debouncedValue = ""
    /\ isPending = FALSE
    /\ timeoutId = 0
    /\ latestValue = ""
    /\ delay = 0
    /\ withControls = FALSE
    /\ debounceWatcher = [active |-> FALSE, queued |-> FALSE]
    /\ mounted = FALSE
    /\ atUnmount = NotUnmounted
    /\ sinceSource = 0
    /\ debounceLog = NothingCancelled

CardRest ==
    /\ cardPokemon = 0
    /\ imageError = FALSE
    /\ emitted = <<>>

DarkRest ==
    /\ systemDark = FALSE
    /\ rootDark = FALSE
    /\ isDarkMode = FALSE
    /\ darkStorage = Null
    /\ darkLoaded = FALSE
    /\ darkAtLoad = [saved |-> Null, untouched |-> TRUE]
    /\ userChose = FALSE

ThemeRest ==
    /\ uiIsDarkMode = FALSE
    /\ themeInitialized = FALSE
    /\ themeStorage = Null
    /\ uiCreated = FALSE
    /\ themeListeners = 0

ClockRest == now = 0

NoTypesCall ==
    [phase |-> "idle", refs |-> <<>>, got |-> <<>>, order |-> <<>>, listOk |-> FALSE,
     result |-> [state |-> "none"]]

TypesRest == typesCall = NoTypesCall

UiRest == CardRest /\ DarkRest /\ ThemeRest /\ ClockRest /\ TypesRest

(***************************************************************************)
(* Strings are sequences of characters, so that trim() is computed.        *)
(***************************************************************************)
RECURSIVE TrimStart(_)
TrimStart(s) == IF s # <<>> /\ Head(s) = " " THEN TrimStart(Tail(s)) ELSE s

RECURSIVE TrimEnd(_)
TrimEnd(s) ==
    IF s # <<>> /\ s[Len(s)] = " " THEN TrimEnd(SubSeq(s, 1, Len(s) - 1)) ELSE s

Trim(s) == TrimEnd(TrimStart(s))

\* The texts a user types into the search box.
Queries == { <<>>, <<"p">>, <<" ", "p", " ">>, <<"b", " ">> }

(***************************************************************************)
(* Browser timers                                                          *)
(***************************************************************************)
SetTimeout(ts, id, value, ms) ==
    ts \cup {[id |-> id, value |-> value, remaining |-> ms]}

ClearTimeout(ts, id) == {t \in ts : t.id # id}

TimerDue(t) == t.remaining <= 0

\* Time passes: no timer is overdue (a due callback runs first) and no
\* watcher job is waiting (microtasks run before the clock moves).
Elapse(ts) == {[t EXCEPT !.remaining = @ - TickMs] : t \in ts}

(***************************************************************************)
(* Filter store                                                            *)
(***************************************************************************)
DEBOUNCE_DELAY == 300

ApiTypeNames == <<"fire", "water">>

FallbackTypes == <<"normal", "fire", "water", "electric", "grass", "ice",
                   "fighting", "poison", "ground", "flying", "psychic", "bug",
                   "rock", "ghost", "dragon", "dark", "steel", "fairy">>

SeqContains(s, x) == \E i \in 1..Len(s) : s[i] = x

\* The types a caller may hand to setSelectedType.
TypeInputs == {"fire", "water", "shadow", Null}

\* The filter store right after its creation: watch(..., {immediate: true})
\* has run its callback once with '' (timer 1) and initializeStore() has
\* started loadAvailableTypes().
FilterCreated ==
    /\ searchQuery = <<>>
    /\ debouncedSearchQuery = <<>>
    /\ selectedType = Null
    /\ availableTypes = <<>>
    /\ isLoadingTypes = TRUE
    /\ typesError = Null
    /\ searchDebounceTimer = 1
    /\ searchWatcher = [old |-> <<>>, queued |-> FALSE]
    /\ sinceChange = 0

InitFilter ==
    /\ timers = SetTimeout({}, 1, <<>>, DEBOUNCE_DELAY)
    /\ nextTimerId = 2
    /\ ev = [op |-> "init"]
    /\ FilterCreated
    /\ FavRest
    /\ PokeRest
    /\ ApiRest
    /\ DebounceRest
    /\ UiRest

\* A write to the searchQuery ref: a changed value queues the watcher job.
WriteSearchQuery(q) ==
    /\ searchQuery' = q
    /\ searchWatcher' = IF q # searchQuery
                        THEN [searchWatcher EXCEPT !.queued = TRUE]
                        ELSE searchWatcher
    /\ sinceChange' = IF q # searchQuery THEN 0 ELSE sinceChange

\* A new task may start: the microtasks of the previous one have run.
TaskBoundary == ~searchWatcher.queued

setSearchQuery(q) ==
    /\ TaskBoundary
    /\ nextTimerId <= MaxTimers
    /\ WriteSearchQuery(q)
    /\ ev' = [op |-> "setSearchQuery"]
    /\ FilterFrame
    /\ UNCHANGED <<timers, nextTimerId, debouncedSearchQuery, selectedType,
                   availableTypes, isLoadingTypes, typesError, searchDebounceTimer>>

clearSearchFilter == setSearchQuery(<<>>)

\* The timers left by the watcher callback's "clear the previous timer".
WatcherNoClear == timers

WatcherClearedTimers ==
    IF searchDebounceTimer # 0 THEN ClearTimeout(timers, searchDebounceTimer)
    ELSE timers

\* The watcher job of watch(searchQuery): the callback runs when the value
\* differs from the one the watcher saw last.
SearchWatcherRun ==
    /\ searchWatcher.queued
    /\ IF searchQuery # searchWatcher.old
       THEN /\ timers' = SetTimeout(WatcherClearedTimers, nextTimerId,
                                    searchQuery, DEBOUNCE_DELAY)
            /\ searchDebounceTimer' = nextTimerId
            /\ nextTimerId' = nextTimerId + 1
       ELSE UNCHANGED <<timers, searchDebounceTimer, nextTimerId>>
    /\ searchWatcher' = [old |-> searchQuery, queued |-> FALSE]
    /\ ev' = [op |-> "searchWatcher"]
    /\ FilterFrame
    /\ UNCHANGED <<searchQuery, debouncedSearchQuery, selectedType, availableTypes,
                   isLoadingTypes, typesError, sinceChange>>

\* The value the timer callback stores.
DebouncedOf(q) == Trim(q)

\* The setTimeout callback of the watcher.
SearchTimerFire ==
    /\ TaskBoundary
    /\ \E t \in timers :
         /\ TimerDue(t)
         /\ timers' = timers \ {t}
         /\ debouncedSearchQuery' = DebouncedOf(t.value)
    /\ ev' = [op |-> "searchTimer"]
    /\ FilterFrame
    /\ UNCHANGED <<nextTimerId, searchQuery, selectedType, availableTypes,
                   isLoadingTypes, typesError, searchDebounceTimer, searchWatcher,
                   sinceChange>>

FilterTick ==
    /\ TaskBoundary
    /\ timers # {}
    /\ \A t \in timers : ~TimerDue(t)
    /\ timers' = Elapse(timers)
    /\ sinceChange' = IF sinceChange + TickMs >= DEBOUNCE_DELAY THEN DEBOUNCE_DELAY
                      ELSE sinceChange + TickMs
    /\ ev' = [op |-> "tick"]
    /\ FilterFrame
    /\ UNCHANGED <<nextTimerId, searchQuery, debouncedSearchQuery, selectedType,
                   availableTypes, isLoadingTypes, typesError, searchDebounceTimer,
                   searchWatcher>>

setSelectedType(type) ==
    /\ TaskBoundary
    /\ IF type # Null /\ Len(availableTypes) > 0 /\ ~SeqContains(availableTypes, type)
       THEN UNCHANGED selectedType
       ELSE selectedType' = type
    /\ ev' = [op |-> "setSelectedType"]
    /\ FilterFrame
    /\ UNCHANGED <<timers, nextTimerId, searchQuery, debouncedSearchQuery,
                   availableTypes, isLoadingTypes, typesError, searchDebounceTimer,
                   searchWatcher, sinceChange>>

clearTypeFilter == setSelectedType(Null)

clearFilters ==
    /\ TaskBoundary
    /\ searchQuery # <<>> => nextTimerId <= MaxTimers
    /\ IF searchDebounceTimer # 0
       THEN /\ timers' = ClearTimeout(timers, searchDebounceTimer)
            /\ searchDebounceTimer' = 0
       ELSE UNCHANGED <<timers, searchDebounceTimer>>
    /\ WriteSearchQuery(<<>>)
    /\ debouncedSearchQuery' = <<>>
    /\ selectedType' = Null
    /\ ev' = [op |-> "clearFilters"]
    /\ FilterFrame
    /\ UNCHANGED <<nextTimerId, availableTypes, isLoadingTypes, typesError>>

\* The end of loadAvailableTypes(): getAllTypes() resolved or rejected.
loadAvailableTypesDone(ok) ==
    /\ TaskBoundary
    /\ isLoadingTypes
    /\ IF ok
       THEN /\ availableTypes' = ApiTypeNames
            /\ UNCHANGED typesError
       ELSE /\ availableTypes' = FallbackTypes
            /\ typesError' = "Error al obtener los tipos de Pokemon"
    /\ isLoadingTypes' = FALSE
    /\ ev' = [op |-> "loadAvailableTypes"]
    /\ FilterFrame
    /\ UNCHANGED <<timers, nextTimerId, searchQuery, debouncedSearchQuery,
                   selectedType, searchDebounceTimer, searchWatcher, sinceChange>>

FilterNext ==
    \/ \E q \in Queries : setSearchQuery(q)
    \/ clearSearchFilter
    \/ SearchWatcherRun
    \/ SearchTimerFire
    \/ FilterTick
    \/ \E t \in TypeInputs : setSelectedType(t)
    \/ clearTypeFilter
    \/ clearFilters
    \/ \E ok \in BOOLEAN : loadAvailableTypesDone(ok)

SpecFilter == InitFilter /\ [][FilterNext]_vars

\* The event loop runs queued watcher jobs and due timers, and time passes.
SpecFilterLive ==
    /\ SpecFilter
    /\ WF_vars(SearchWatcherRun)
    /\ WF_vars(SearchTimerFire)
    /\ WF_vars(FilterTick)

-----------------------------------------------------------------------------
(***************************************************************************)
(* C1.  debouncedSearchQuery changes only by clearFilters or by a timer    *)
(* that expires DEBOUNCE_DELAY ms after the most recent change of          *)
(* searchQuery, and then to the trimmed current query (a superseded query  *)
(* never shows); at most one timer is pending; and once the changes stop,  *)
(* debouncedSearchQuery ends up equal to the trimmed last query.           *)
(***************************************************************************)
C1_AtMostOneTimer == Cardinality(timers) <= 1

C1_ChangeOnlyByTimer ==
    debouncedSearchQuery' # debouncedSearchQuery =>
        \/ ev'.op = "clearFilters" /\ debouncedSearchQuery' = <<>>
        \/ /\ ev'.op = "searchTimer"
           /\ debouncedSearchQuery' = Trim(searchQuery)
           /\ sinceChange >= DEBOUNCE_DELAY

C1_Debounce ==
    /\ []C1_AtMostOneTimer
    /\ [][C1_ChangeOnlyByTimer]_vars
    /\ <>[](debouncedSearchQuery = Trim(searchQuery))

\* A query was typed over an earlier one within the delay, and the timer of
\* the later one has just stored its trimmed text.
C1_Witness ==
    /\ ev.op = "searchTimer"
    /\ nextTimerId >= 4
    /\ searchQuery = <<" ", "p", " ">>
    /\ debouncedSearchQuery = <<"p">>

-----------------------------------------------------------------------------
(***************************************************************************)
(* Favourites (composables/usePokemonFavorites.ts)                         *)
(*                                                                         *)
(* Of a Pokemon the persistence code reads id and name.  The stored JSON   *)
(* text is a sequence of tokens:  [ { id name } { id name } ]              *)
(***************************************************************************)
PokemonNames == <<"bulbasaur", "ivysaur", "venusaur", "charmander", "charmeleon",
                  "charizard", "squirtle", "wartortle", "blastoise">>

Digits == <<"1", "2", "3", "4", "5", "6", "7", "8", "9">>

FavPokemon(id) == [id |-> id, name |-> PokemonNames[id]]

FavInputs == {FavPokemon(id) : id \in 1..MaxFavId}

\* JSON.stringify of a number / JSON.parse of a number token
NumberToken(n) == Digits[n]

IsNumberToken(tok) == \E n \in 1..Len(Digits) : Digits[n] = tok

TokenNumber(tok) == CHOOSE n \in 1..Len(Digits) : Digits[n] = tok

RECURSIVE StringifyItems(_)
StringifyItems(list) ==
    IF list = <<>> THEN <<>>
    ELSE <<"{", NumberToken(Head(list).id), Head(list).name, "}">>
         \o StringifyItems(Tail(list))

\* JSON.stringify(favoritesToSave)
Stringify(list) == <<"[">> \o StringifyItems(list) \o <<"]">>

\* The text is a JSON array of objects.
IsJsonArray(text) ==
    /\ Len(text) >= 2
    /\ text[1] = "["
    /\ text[Len(text)] = "]"
    /\ (Len(text) - 2) % 4 = 0
    /\ \A k \in 0..((Len(text) - 2) \div 4 - 1) :
          text[4 * k + 2] = "{" /\ text[4 * k + 5] = "}"

\* JSON.parse of an array text: the raw items, [id |-> token, name |-> token]
ParsedItems(text) ==
    [k \in 1..((Len(text) - 2) \div 4) |->
        [id |-> text[4 * (k - 1) + 3], name |-> text[4 * (k - 1) + 4]]]

\* item && typeof item.id === 'number' && typeof item.name === 'string'
ValidItem(item) == IsNumberToken(item.id) /\ item.name # "null"

RECURSIVE KeepValid(_)
KeepValid(items) ==
    IF items = <<>> THEN <<>>
    ELSE IF ValidItem(Head(items))
         THEN <<[id |-> TokenNumber(Head(items).id), name |-> Head(items).name]>>
              \o KeepValid(Tail(items))
         ELSE KeepValid(Tail(items))

\* No item, unparsable text and a JSON value that is no array all give [].
loadFavoritesFromStorage(text) ==
    IF text # <<>> /\ IsJsonArray(text) THEN KeepValid(ParsedItems(text)) ELSE <<>>

\* localStorage.setItem inside try/catch: a throw (quota exceeded, storage
\* denied) is logged and leaves the stored text as it was.
saveFavoritesToStorage(stored, favoritesToSave, throws) ==
    IF throws THEN stored ELSE Stringify(favoritesToSave)

\* What the browser may hold under the key when the app starts.
StoredBefore ==
    { <<>>,
      <<"not json">>,
      <<"{", "1", "bulbasaur", "}">>,
      Stringify(<<>>),
      Stringify(<<FavPokemon(1)>>),
      <<"[", "{", "x", "ivysaur", "}", "{", "2", "null", "}",
             "{", "1", "bulbasaur", "}", "]">> }

InitFavorites ==
    /\ timers = {}
    /\ nextTimerId = 1
    /\ ev = [op |-> "init"]
    /\ FilterRest
    /\ PokeRest
    /\ ApiRest
    /\ DebounceRest
    /\ UiRest
    /\ favorites = <<>>
    /\ favoritesLoaded = FALSE
    /\ favStorage \in StoredBefore
    /\ favWatcherQueued = FALSE
    /\ favSaveFailed = FALSE

isFavorite(pokemonId) == \E i \in 1..Len(favorites) : favorites[i].id = pokemonId

\* findIndex: the first index holding the id, 0 when there is none
FavIndex(pokemonId) ==
    IF isFavorite(pokemonId)
    THEN CHOOSE i \in 1..Len(favorites) :
            /\ favorites[i].id = pokemonId
            /\ \A j \in 1..(i - 1) : favorites[j].id # pokemonId
    ELSE 0

Splice(list, i) == SubSeq(list, 1, i - 1) \o SubSeq(list, i + 1, Len(list))

\* A watcher without {deep: true} misses push and splice.
ShallowWatchTriggers(inPlace) == ~inPlace

\* watch(favorites, ..., {deep: true}): the job is queued by a new array and
\* by a mutation in place.
FavWatchTriggers(inPlace) == TRUE

\* The first usePokemonFavorites(): the watcher is registered, then
\* initializeFavorites() assigns the loaded list.
usePokemonFavorites ==
    /\ ~favoritesLoaded
    /\ favorites' = loadFavoritesFromStorage(favStorage)
    /\ favoritesLoaded' = TRUE
    /\ favWatcherQueued' = FavWatchTriggers(FALSE)
    /\ ev' = [op |-> "usePokemonFavorites"]
    /\ FavFrame
    /\ UNCHANGED <<favStorage, favSaveFailed>>

Push(pokemon) ==
    IF ~isFavorite(pokemon.id)
    THEN /\ favorites' = Append(favorites, pokemon)
         /\ favWatcherQueued' = (favWatcherQueued \/ FavWatchTriggers(TRUE))
    ELSE UNCHANGED <<favorites, favWatcherQueued>>

Remove(pokemonId) ==
    IF FavIndex(pokemonId) > 0
    THEN /\ favorites' = Splice(favorites, FavIndex(pokemonId))
         /\ favWatcherQueued' = (favWatcherQueued \/ FavWatchTriggers(TRUE))
    ELSE UNCHANGED <<favorites, favWatcherQueued>>

addToFavorites(pokemon) ==
    /\ favoritesLoaded
    /\ Push(pokemon)
    /\ ev' = [op |-> "addToFavorites"]
    /\ FavFrame
    /\ UNCHANGED <<favoritesLoaded, favStorage, favSaveFailed>>

removeFromFavorites(pokemonId) ==
    /\ favoritesLoaded
    /\ Remove(pokemonId)
    /\ ev' = [op |-> "removeFromFavorites"]
    /\ FavFrame
    /\ UNCHANGED <<favoritesLoaded, favStorage, favSaveFailed>>

toggleFavorite(pokemon) ==
    /\ favoritesLoaded
    /\ IF isFavorite(pokemon.id) THEN Remove(pokemon.id) ELSE Push(pokemon)
    /\ ev' = [op |-> "toggleFavorite"]
    /\ FavFrame
    /\ UNCHANGED <<favoritesLoaded, favStorage, favSaveFailed>>

clearFavorites ==
    /\ favoritesLoaded
    /\ favorites' = <<>>
    /\ favWatcherQueued' = (favWatcherQueued \/ FavWatchTriggers(FALSE))
    /\ ev' = [op |-> "clearFavorites"]
    /\ FavFrame
    /\ UNCHANGED <<favoritesLoaded, favStorage, favSaveFailed>>

\* The watcher job: saves when the favourites have been loaded.
FavoritesWatcherRun(throws) ==
    /\ favWatcherQueued
    /\ favWatcherQueued' = FALSE
    /\ IF favoritesLoaded
       THEN /\ favStorage' = saveFavoritesToStorage(favStorage, favorites, throws)
            /\ favSaveFailed' = throws
       ELSE UNCHANGED <<favStorage, favSaveFailed>>
    /\ ev' = [op |-> "favoritesWatcher"]
    /\ FavFrame
    /\ UNCHANGED <<favorites, favoritesLoaded>>

FavoritesNext ==
    \/ usePokemonFavorites
    \/ \E p \in FavInputs : addToFavorites(p)
    \/ \E p \in FavInputs : removeFromFavorites(p.id)
    \/ \E p \in FavInputs : toggleFavorite(p)
    \/ clearFavorites
    \/ \E throws \in BOOLEAN : FavoritesWatcherRun(throws)

SpecFavorites == InitFavorites /\ [][FavoritesNext]_vars

-----------------------------------------------------------------------------
Min(a, b) == IF a < b THEN a ELSE b

Max(a, b) == IF a > b THEN a ELSE b

\* The catalogue of the server.
NameOf == << <<"b", "u">>, <<"p", "i">>, <<"p", "a">>, <<"m", "e">>,
             <<"e", "e">>, <<"a", "b">> >>

TypesOf == << <<"grass", "poison">>, <<"fire">>, <<"water">>, <<"fire", "flying">>,
              <<"normal">>, <<"psychic">> >>

\* GET /pokemon/{id}
Detail(id) == [id |-> id, name |-> NameOf[id], types |-> TypesOf[id], height |-> id]

ListRef(id) == [name |-> NameOf[id], url |-> <<"pokemon", NumberToken(id)>>]

\* GET /pokemon?limit&offset
ServerList(limit, offset) ==
    [count   |-> ServerCount,
     results |-> [k \in 1..Max(0, Min(limit, ServerCount - offset)) |-> ListRef(offset + k)]]

\* The ApiErrors a request is rejected with (createApiError).
NetworkError ==
    [message |-> "Error de conexion. Verifique su conexion a internet.", type |-> "network"]

ServerError ==
    [message |-> "Error interno del servidor. Intente mas tarde.", type |-> "server",
     status |-> 500]

RequestErrors == {NetworkError, ServerError}

extractIdFromUrl(url) == TokenNumber(url[Len(url)])

\* The minimal Pokemon the list load puts in place of a failed detail.
Fallback(ref) ==
    [id |-> extractIdFromUrl(ref.url), name |-> ref.name, types |-> <<>>, height |-> 0]

\* The store's refs as one value, so that an action can run several store
\* functions one after the other.
Store ==
    [pokemons |-> pokemons, currentPokemon |-> currentPokemon, totalCount |-> totalCount,
     isLoading |-> isLoading, error |-> error, currentPage |-> currentPage,
     itemsPerPage |-> itemsPerPage, pokemonCache |-> pokemonCache, filters |-> filters,
     calls |-> calls, lastList |-> lastList]

Commit(S) ==
    /\ pokemons' = S.pokemons
    /\ currentPokemon' = S.currentPokemon
    /\ totalCount' = S.totalCount
    /\ isLoading' = S.isLoading
    /\ error' = S.error
    /\ currentPage' = S.currentPage
    /\ itemsPerPage' = S.itemsPerPage
    /\ pokemonCache' = S.pokemonCache
    /\ filters' = S.filters
    /\ calls' = S.calls
    /\ lastList' = S.lastList

\* What the program shows of the store before a step (history, for ev).
Before == [pokemons |-> pokemons, totalCount |-> totalCount, currentPage |-> currentPage]

totalPages(S) == (S.totalCount + S.itemsPerPage - 1) \div S.itemsPerPage

CacheHas(S, id) == \E p \in S.pokemonCache : p.id = id

CacheGet(S, id) == CHOOSE p \in S.pokemonCache : p.id = id

CacheSet(cache, pokemon) == {p \in cache : p.id # pokemon.id} \cup {pokemon}

\* err instanceof Error / 'message' in err / anything else
ErrorMessage(err, fallback) == IF "message" \in DOMAIN err THEN err.message ELSE fallback

NoCall ==
    [kind |-> "none", page |-> 0, resetList |-> TRUE, limit |-> 0, offset |-> 0,
     phase |-> "none", results |-> <<>>, count |-> 0, status |-> <<>>, sent |-> <<>>,
     listSent |-> 0, latest |-> FALSE, id |-> 0]

RemoveAt(s, i) == SubSeq(s, 1, i - 1) \o SubSeq(s, i + 1, Len(s))

\* Requests of a call that wait for their response.
PendingOf(c) ==
    IF c.kind = "detail" \/ c.phase = "list" THEN 1
    ELSE Cardinality({k \in DOMAIN c.status : c.status[k] = "pending"})

RECURSIVE PendingIn(_)
PendingIn(cs) == IF cs = <<>> THEN 0 ELSE PendingOf(Head(cs)) + PendingIn(Tail(cs))

Unmark(cs) == [i \in DOMAIN cs |-> [cs[i] EXCEPT !.latest = FALSE]]

\* The catch and finally blocks of fetchPokemons.
ClearedOnFailure(S) == [pokemons |-> <<>>, totalCount |-> 0]

KeptOnFailure(S) ==
    IF Len(S.pokemons) = 0
    THEN [pokemons |-> <<>>, totalCount |-> 0]
    ELSE [pokemons |-> S.pokemons, totalCount |-> S.totalCount]

FetchCaught(S, err) ==
    [S EXCEPT !.error = ErrorMessage(err, "Error desconocido al cargar la lista de Pokemon"),
              !.pokemons = KeptOnFailure(S).pokemons,
              !.totalCount = KeptOnFailure(S).totalCount,
              !.isLoading = FALSE]

\* fetchPokemons up to its first await (or to its end, when the page is
\* rejected).
fetchPokemons(S, page, resetList) ==
    LET s1 == [S EXCEPT !.isLoading = TRUE, !.error = Null] IN
    IF page < 1
    THEN [FetchCaught(s1, [message |-> "El numero de pagina debe ser mayor a 0"])
             EXCEPT !.lastList = [page |-> page, outcome |-> "failed", pokemons |-> <<>>],
                    !.calls = Unmark(@)]
    ELSE [s1 EXCEPT
             !.calls = Append(Unmark(@),
                 [NoCall EXCEPT !.kind = "list", !.page = page, !.resetList = resetList,
                                !.limit = S.itemsPerPage,
                                !.offset = (page - 1) * S.itemsPerPage,
                                !.phase = "list", !.listSent = 1, !.latest = TRUE]),
             !.lastList = [page |-> page, outcome |-> "pending", pokemons |-> <<>>]]

setCurrentPage(S, page) ==
    IF page < 1 \/ page > totalPages(S) THEN S
    ELSE IF page = S.currentPage THEN S
    ELSE fetchPokemons(S, page, TRUE)

\* The list a call ends with: the cached or loaded Pokemon, the minimal one
\* where the detail request failed.
Detailed(c) ==
    [k \in DOMAIN c.results |->
        IF c.status[k] = "failed" THEN Fallback(c.results[k])
        ELSE Detail(extractIdFromUrl(c.results[k].url))]

\* After Promise.all: the state update and the finally block.
ListDone(S, i) ==
    LET c == S.calls[i] IN
    [S EXCEPT !.pokemons = IF c.resetList THEN Detailed(c) ELSE @ \o Detailed(c),
              !.totalCount = c.count,
              !.currentPage = c.page,
              !.isLoading = FALSE,
              !.calls = RemoveAt(@, i),
              !.lastList = IF c.latest
                           THEN [page |-> c.page, outcome |-> "ok",
                                 pokemons |-> IF c.resetList THEN Detailed(c)
                                              ELSE S.pokemons \o Detailed(c)]
                           ELSE @]

ListFailed(S, i, err) ==
    LET c == S.calls[i] IN
    [FetchCaught(S, err) EXCEPT
        !.calls = RemoveAt(@, i),
        !.lastList = IF c.latest THEN [@ EXCEPT !.outcome = "failed"] ELSE @]

\* One detail request per listed Pokemon that the cache does not hold.
AlwaysRequest(S, id) == TRUE

NeedsRequest(S, id) == ~CacheHas(S, id)

\* The call once getPokemonList's response is in: the map over the results
\* has run up to the await of each detail request.
ListCallWith(S, c, response) ==
    LET st == [k \in DOMAIN response.results |->
                  IF NeedsRequest(S, extractIdFromUrl(response.results[k].url))
                  THEN "pending" ELSE "cached"]
    IN  [c EXCEPT !.phase = "details", !.results = response.results,
                  !.count = response.count, !.status = st,
                  !.sent = [k \in DOMAIN st |-> IF st[k] = "pending" THEN 1 ELSE 0]]

\* The continuation of getPokemonList's response.
ListArrived(S, i, response) ==
    LET c2 == ListCallWith(S, S.calls[i], response)
        s2 == [S EXCEPT !.calls[i] = c2]
    IN  IF PendingOf(c2) = 0 THEN ListDone(s2, i) ELSE s2

\* The continuation of one detail response of a list load.
DetailArrived(S, i, k, ok) ==
    LET c  == S.calls[i]
        c2 == [c EXCEPT !.status[k] = IF ok THEN "ok" ELSE "failed"]
        s2 == [S EXCEPT !.calls[i] = c2,
                        !.pokemonCache =
                            IF ok THEN CacheSet(@, Detail(extractIdFromUrl(c.results[k].url)))
                            ELSE @]
    IN  IF PendingOf(c2) = 0 THEN ListDone(s2, i) ELSE s2

IsInteger(id) == id \in Int

\* fetchPokemonDetail up to its first await (or to its end: invalid id, cache hit).
fetchPokemonDetail(S, id) ==
    LET s1 == [S EXCEPT !.isLoading = TRUE, !.error = Null] IN
    IF ~IsInteger(id) \/ id < 1
    THEN [s1 EXCEPT !.error = "ID de Pokemon invalido", !.currentPokemon = NoPokemon,
                    !.isLoading = FALSE]
    ELSE IF CacheHas(s1, id)
    THEN [s1 EXCEPT !.currentPokemon = CacheGet(s1, id), !.isLoading = FALSE]
    ELSE [s1 EXCEPT !.calls = Append(@, [NoCall EXCEPT !.kind = "detail", !.id = id,
                                                       !.phase = "detail"])]

PokemonArrived(S, i) ==
    LET c == S.calls[i] IN
    [S EXCEPT !.currentPokemon = Detail(c.id),
              !.pokemonCache = CacheSet(@, Detail(c.id)),
              !.isLoading = FALSE,
              !.calls = RemoveAt(@, i)]

PokemonFailed(S, i, err) ==
    LET c == S.calls[i] IN
    [S EXCEPT !.error = ErrorMessage(err, "Error al cargar el Pokemon"),
              !.currentPokemon = NoPokemon,
              !.isLoading = FALSE,
              !.calls = RemoveAt(@, i)]

(***************************************************************************)
(* Home view (views/HomeView.vue)                                          *)
(***************************************************************************)
\* toLowerCase over the letters the searches use.
Lower(s) == [i \in DOMAIN s |-> IF s[i] = "P" THEN "p" ELSE s[i]]

Includes(s, sub) ==
    \E i \in 0..(Len(s) - Len(sub)) : SubSeq(s, i + 1, i + Len(sub)) = sub

hasActiveFilters == Len(debouncedSearchQuery) > 0 \/ selectedType # Null

MatchesSearch(p) ==
    \/ Includes(Lower(p.name), Lower(debouncedSearchQuery))
    \/ Includes(<<NumberToken(p.id)>>, Lower(debouncedSearchQuery))

MatchesType(p) == SeqContains(p.types, selectedType)

filteredPokemons ==
    SelectSeq(pokemons,
              LAMBDA p : /\ (Len(debouncedSearchQuery) > 0 => MatchesSearch(p))
                         /\ (selectedType # Null => MatchesType(p)))

\* The branch of the template's v-if chain that renders.
HomeViewShows ==
    IF isLoading /\ Len(pokemons) = 0 THEN "loading"
    ELSE IF error # Null /\ Len(pokemons) = 0 THEN "error"
    ELSE IF ~isLoading /\ Len(filteredPokemons) = 0 /\ hasActiveFilters THEN "noMatches"
    ELSE IF ~isLoading /\ Len(pokemons) = 0 THEN "empty"
    ELSE IF Len(filteredPokemons) > 0 THEN "content"
    ELSE "nothing"

PaginationShown == HomeViewShows = "content" /\ ~isLoading /\ ~hasActiveFilters

\* The searches and types the filter store publishes to the view.
HomeQueries == { <<>>, <<"P">> }

HomeTypes == { Null, "fire" }

\* The ids a detail route is opened with.
DetailIds == 0..ServerCount

InitPokemon ==
    /\ timers = {}
    /\ nextTimerId = 1
    /\ ev = [op |-> "init"]
    /\ FilterRest
    /\ FavRest
    /\ PokeRest
    /\ ApiRest
    /\ DebounceRest
    /\ UiRest

\* onMounted: loadInitialData
NavigateHome ==
    /\ route # "home"
    /\ Len(calls) < MaxInFlight
    /\ route' = "home"
    /\ Commit(fetchPokemons(Store, 1, TRUE))
    /\ UNCHANGED <<debouncedSearchQuery, selectedType>>
    /\ ev' = [op |-> "fetchPokemons", page |-> 1]
    /\ PokeFrame

\* The detail view's onMounted: loadPokemonDetail
NavigateDetail(id) ==
    /\ route # "detail"
    /\ Len(calls) < MaxInFlight
    /\ route' = "detail"
    /\ LET S2 == IF id > 0 THEN fetchPokemonDetail(Store, id) ELSE Store IN
       /\ Commit(S2)
       /\ ev' = IF id > 0 /\ Len(S2.calls) = Len(calls)
                THEN [op |-> "fetchPokemonDetailDone", id |-> id, ok |-> TRUE,
                      returned |-> S2.currentPokemon, message |-> Null]
                ELSE [op |-> "loadPokemonDetail", id |-> id]
    /\ UNCHANGED <<debouncedSearchQuery, selectedType>>
    /\ PokeFrame

\* Pagination's goToPage emits page-change; handlePageChange
handlePageChange(page) ==
    /\ route = "home"
    /\ PaginationShown
    /\ page >= 1 /\ page <= totalPages(Store) /\ page # currentPage
    /\ Len(calls) < MaxInFlight
    /\ Commit(setCurrentPage(Store, page))
    /\ UNCHANGED <<route, debouncedSearchQuery, selectedType>>
    /\ ev' = [op |-> "fetchPokemons", page |-> page]
    /\ PokeFrame

\* The retry of the error banner and of the empty state
retryLoadPokemons ==
    /\ route = "home"
    /\ HomeViewShows \in {"error", "empty"}
    /\ Len(calls) < MaxInFlight
    /\ Commit(fetchPokemons(Store, 1, TRUE))
    /\ UNCHANGED <<route, debouncedSearchQuery, selectedType>>
    /\ ev' = [op |-> "fetchPokemons", page |-> 1]
    /\ PokeFrame

\* A watcher of the view on a filter: back to page 1.
FilterWatcher(S) == IF S.currentPage # 1 THEN setCurrentPage(S, 1) ELSE S

\* The filter store publishes a new debounced search.
HomeSearchChanged(q) ==
    /\ route = "home"
    /\ q # debouncedSearchQuery
    /\ Len(calls) < MaxInFlight
    /\ debouncedSearchQuery' = q
    /\ Commit(FilterWatcher(Store))
    /\ UNCHANGED <<route, selectedType>>
    /\ ev' = [op |-> "searchChanged", started |-> Len(FilterWatcher(Store).calls) - Len(calls)]
    /\ PokeFrame

\* The filter store publishes a new selected type.
HomeTypeChanged(t) ==
    /\ route = "home"
    /\ t # selectedType
    /\ Len(calls) < MaxInFlight
    /\ selectedType' = t
    /\ Commit(FilterWatcher(Store))
    /\ UNCHANGED <<route, debouncedSearchQuery>>
    /\ ev' = [op |-> "typeChanged", started |-> Len(FilterWatcher(Store).calls) - Len(calls)]
    /\ PokeFrame

\* clearAllFilters: both filters are reset in one task, and the watcher of
\* each filter that changed runs.
HomeFiltersCleared ==
    /\ route = "home"
    /\ hasActiveFilters
    /\ LET s1 == IF debouncedSearchQuery # <<>> THEN FilterWatcher(Store) ELSE Store
           s2 == IF selectedType # Null THEN FilterWatcher(s1) ELSE s1
       IN  /\ Len(s2.calls) <= MaxInFlight
           /\ Commit(s2)
           /\ ev' = [op |-> "filtersCleared", started |-> Len(s2.calls) - Len(calls)]
    /\ debouncedSearchQuery' = <<>>
    /\ selectedType' = Null
    /\ UNCHANGED route
    /\ PokeFrame

\* The response of getPokemonList arrives.
ListResponseOk(i) ==
    /\ i \in DOMAIN calls
    /\ calls[i].kind = "list" /\ calls[i].phase = "list"
    /\ LET S2 == ListArrived(Store, i, ServerList(calls[i].limit, calls[i].offset)) IN
       /\ Commit(S2)
       /\ ev' = [op |-> IF Len(S2.calls) < Len(calls) THEN "fetchPokemonsDone"
                        ELSE "listArrived",
                 step |-> "list", before |-> Before,
                 call |-> ListCallWith(Store, calls[i],
                                       ServerList(calls[i].limit, calls[i].offset))]
    /\ UNCHANGED <<route, debouncedSearchQuery, selectedType>>
    /\ PokeFrame

\* getPokemonList rejects.
ListResponseFailed(i, err) ==
    /\ i \in DOMAIN calls
    /\ calls[i].kind = "list" /\ calls[i].phase = "list"
    /\ Commit(ListFailed(Store, i, err))
    /\ ev' = [op |-> "fetchPokemonsFailed", step |-> "list", before |-> Before,
              call |-> calls[i], message |-> err.message]
    /\ UNCHANGED <<route, debouncedSearchQuery, selectedType>>
    /\ PokeFrame

\* The response of one getPokemonById of a list load arrives or fails.
DetailResponse(i, k, ok) ==
    /\ i \in DOMAIN calls
    /\ calls[i].kind = "list" /\ calls[i].phase = "details"
    /\ k \in DOMAIN calls[i].status
    /\ calls[i].status[k] = "pending"
    /\ LET S2 == DetailArrived(Store, i, k, ok)
           c2 == [calls[i] EXCEPT !.status[k] = IF ok THEN "ok" ELSE "failed"]
       IN
       /\ Commit(S2)
       /\ ev' = [op |-> IF Len(S2.calls) < Len(calls) THEN "fetchPokemonsDone"
                        ELSE "detailArrived",
                 step |-> IF ok THEN "detail" ELSE "detailFailed",
                 before |-> Before, call |-> c2]
    /\ UNCHANGED <<route, debouncedSearchQuery, selectedType>>
    /\ PokeFrame

\* The response of fetchPokemonDetail's getPokemonById arrives.
PokemonResponseOk(i) ==
    /\ i \in DOMAIN calls
    /\ calls[i].kind = "detail"
    /\ Commit(PokemonArrived(Store, i))
    /\ ev' = [op |-> "fetchPokemonDetailDone", id |-> calls[i].id, ok |-> TRUE,
              returned |-> Detail(calls[i].id), message |-> Null]
    /\ UNCHANGED <<route, debouncedSearchQuery, selectedType>>
    /\ PokeFrame

PokemonResponseFailed(i, err) ==
    /\ i \in DOMAIN calls
    /\ calls[i].kind = "detail"
    /\ Commit(PokemonFailed(Store, i, err))
    /\ ev' = [op |-> "fetchPokemonDetailDone", id |-> calls[i].id, ok |-> FALSE,
              returned |-> NoPokemon, message |-> err.message]
    /\ UNCHANGED <<route, debouncedSearchQuery, selectedType>>
    /\ PokeFrame

PokemonNext ==
    \/ NavigateHome
    \/ \E id \in DetailIds : NavigateDetail(id)
    \/ \E page \in 1..(ServerCount + 1) : handlePageChange(page)
    \/ retryLoadPokemons
    \/ \E q \in HomeQueries : HomeSearchChanged(q)
    \/ \E t \in HomeTypes : HomeTypeChanged(t)
    \/ HomeFiltersCleared
    \/ \E i \in 1..MaxInFlight : ListResponseOk(i)
    \/ \E i \in 1..MaxInFlight, err \in RequestErrors : ListResponseFailed(i, err)
    \/ \E i \in 1..MaxInFlight, k \in 1..PageSize, ok \in BOOLEAN : DetailResponse(i, k, ok)
    \/ \E i \in 1..MaxInFlight : PokemonResponseOk(i)
    \/ \E i \in 1..MaxInFlight, err \in RequestErrors : PokemonResponseFailed(i, err)

SpecPokemon == InitPokemon /\ [][PokemonNext]_vars

\* The steps in which a fetchPokemons call may start.
StartOps == {"fetchPokemons", "searchChanged", "typeChanged", "filtersCleared"}

NoListInFlight == \A i \in DOMAIN calls : calls[i].kind # "list"

RECURSIVE SumSeq(_)
SumSeq(s) == IF s = <<>> THEN 0 ELSE Head(s) + SumSeq(Tail(s))

(***************************************************************************)
(* C3.  Once no page load is in flight and the load issued last has        *)
(* succeeded, currentPage is the page of that load and pokemons lists the  *)
(* Pokemon of that load.                                                   *)
(***************************************************************************)
IdsOf(list) == [k \in DOMAIN list |-> list[k].id]

C3_LastIssuedWins ==
    (NoListInFlight /\ lastList.outcome = "ok") =>
        /\ currentPage = lastList.page
        /\ IdsOf(pokemons) = IdsOf(lastList.pokemons)

(***************************************************************************)
(* C4.  After a list load has failed, with the store not loading and its   *)
(* error set, the home view renders the error banner.                      *)
(***************************************************************************)
C4_FailureSurfaced ==
    (route = "home" /\ ev.op = "fetchPokemonsFailed" /\ ~isLoading /\ error # Null) =>
        HomeViewShows = "error"

(***************************************************************************)
(* C6.  A step that starts fetchPokemons calls sends one list request per  *)
(* call; the step that receives the list sends one detail request for each *)
(* listed id the cache does not hold and none for a cached id; a step that *)
(* receives a response or a failure sends nothing else, so that a failed   *)
(* request is not sent again.                                              *)
(***************************************************************************)
C6_Requests ==
    /\ ev'.op \in StartOps =>
          /\ PendingIn(calls') = PendingIn(calls) + (Len(calls') - Len(calls))
          /\ \A i \in DOMAIN calls' : calls'[i].kind = "list" => calls'[i].listSent = 1
    /\ ev'.op \in {"listArrived", "fetchPokemonsDone"} =>
          IF ev'.step = "list"
          THEN /\ \A k \in DOMAIN ev'.call.results :
                     ev'.call.sent[k] =
                         IF CacheHas(Store, extractIdFromUrl(ev'.call.results[k].url))
                         THEN 0 ELSE 1
               /\ PendingIn(calls') = PendingIn(calls) - 1 + SumSeq(ev'.call.sent)
          ELSE PendingIn(calls') = PendingIn(calls) - 1
    /\ ev'.op \in {"detailArrived", "fetchPokemonsFailed"} =>
          PendingIn(calls') = PendingIn(calls) - 1

C6_OneRequestEach == [][C6_Requests]_vars

\* A load ends that took one Pokemon from the cache and whose request for
\* another failed.
C6_Witness ==
    /\ ev.op = "fetchPokemonsDone"
    /\ \E k, j \in DOMAIN ev.call.status :
          ev.call.status[k] = "cached" /\ ev.call.status[j] = "failed"

(***************************************************************************)
(* C8.  When fetchPokemons(page, true) ends with the list and every detail *)
(* loaded, isLoading is false, error is null, pokemons are the details of  *)
(* the listed Pokemon in list order, totalCount is the response's count,   *)
(* currentPage is page, and the list was requested with limit itemsPerPage *)
(* and offset (page - 1) * itemsPerPage.                                   *)
(***************************************************************************)
C8_SuccessEndState ==
    (/\ ev.op = "fetchPokemonsDone"
     /\ ev.call.resetList
     /\ \A k \in DOMAIN ev.call.status : ev.call.status[k] # "failed") =>
        /\ ~isLoading
        /\ error = Null
        /\ pokemons = [k \in DOMAIN ev.call.results |->
                          Detail(extractIdFromUrl(ev.call.results[k].url))]
        /\ totalCount = ev.call.count
        /\ currentPage = ev.call.page
        /\ ev.call.limit = itemsPerPage
        /\ ev.call.offset = (ev.call.page - 1) * itemsPerPage

(***************************************************************************)
(* C9.  When the list request of a fetchPokemons call fails, the call ends *)
(* with isLoading false and error the failure's message; currentPage is    *)
(* as it was; a non-empty pokemons and its totalCount are as they were,    *)
(* and an empty pokemons stays empty with totalCount 0.                    *)
(***************************************************************************)
C9_ListFailureKeepsData ==
    ev.op = "fetchPokemonsFailed" =>
        /\ ~isLoading
        /\ error = ev.message
        /\ currentPage = ev.before.currentPage
        /\ IF Len(ev.before.pokemons) > 0
           THEN pokemons = ev.before.pokemons /\ totalCount = ev.before.totalCount
           ELSE pokemons = <<>> /\ totalCount = 0

\* The load of another page fails while a page is shown.
C9_Witness ==
    /\ ev.op = "fetchPokemonsFailed"
    /\ ev.call.page # currentPage
    /\ Len(pokemons) > 0
    /\ totalCount = ServerCount

(***************************************************************************)
(* C10.  When fetchPokemonDetail(id) ends, isLoading is false and the      *)
(* value returned is the one in currentPokemon: on success the Pokemon of  *)
(* that id with error null, on failure null with error the failure's       *)
(* message.                                                                *)
(***************************************************************************)
C10_DetailEndState ==
    ev.op = "fetchPokemonDetailDone" =>
        /\ ~isLoading
        /\ ev.returned = currentPokemon
        /\ IF ev.ok
           THEN currentPokemon = Detail(ev.id) /\ error = Null
           ELSE currentPokemon = NoPokemon /\ error = ev.message

(***************************************************************************)
(* Service functions (services/pokemon.service) and the axios error        *)
(* mapping (services/api.config.ts)                                        *)
(*                                                                         *)
(* A JavaScript value that is thrown is a record: typeof and null tell an  *)
(* object from a primitive, class tells an Error from a plain object, has  *)
(* is the set of properties an object carries ('message' in error), and    *)
(* the remaining fields are the values of those properties.  A text is a   *)
(* sequence of strings, the empty one being '' (falsy).                    *)
(***************************************************************************)
NoProps ==
    [typeof |-> "object", null |-> FALSE, class |-> "Object", has |-> {},
     message |-> <<>>, type |-> "", status |-> 0, detail |-> <<>>, field |-> <<>>]

JsUndefined == [NoProps EXCEPT !.typeof = "undefined"]

JsNull == [NoProps EXCEPT !.null = TRUE]

JsString == [NoProps EXCEPT !.typeof = "string"]

TypeError ==
    [NoProps EXCEPT !.class = "Error", !.has = {"message"},
                    !.message = <<"Cannot read properties of undefined">>]

\* What a raw exception inside a service function may be.
RawThrown == {TypeError, JsUndefined, JsNull, JsString}

Truthy(x) == ~x.null /\ x.typeof # "undefined"

instanceofError(x) == x.typeof = "object" /\ ~x.null /\ x.class = "Error"

ApiErrorTypes == {"network", "validation", "server", "client", "unknown"}

isApiError(err) ==
    /\ Truthy(err)
    /\ err.typeof = "object"
    /\ "message" \in err.has
    /\ "type" \in err.has

\* a || b
Or(a, b) == IF a # <<>> THEN a ELSE b

getStatusMessage(status) ==
    CASE status = 400 -> <<"Peticion incorrecta. Verifique los parametros enviados.">>
      [] status = 401 -> <<"No autorizado. Verifique sus credenciales.">>
      [] status = 403 -> <<"Acceso prohibido.">>
      [] status = 404 -> <<"Recurso no encontrado. El Pokemon o endpoint solicitado no existe.">>
      [] status = 408 -> <<"Tiempo de espera agotado. Intente nuevamente.">>
      [] status = 429 -> <<"Demasiadas peticiones. Espere un momento antes de intentar nuevamente.">>
      [] status = 500 -> <<"Error interno del servidor. Intente mas tarde.">>
      [] status = 502 -> <<"Puerta de enlace incorrecta. El servidor esta temporalmente no disponible.">>
      [] status = 503 -> <<"Servicio no disponible. Intente mas tarde.">>
      [] status = 504 -> <<"Tiempo de espera del servidor agotado.">>
      [] OTHER -> <<"Error ", ToString(status), ": Ocurrio un problema inesperado.">>

ResponseTypeAbove(status) == IF status > 500 THEN "server" ELSE "client"

ResponseType(status) == IF status >= 500 THEN "server" ELSE "client"

\* The body of an error response: not an object, or an object of which the
\* mapping reads message, detail and field.
NoBody == [isObject |-> FALSE, message |-> <<>>, detail |-> <<>>, field |-> <<>>]

Bodies ==
    { NoBody,
      [NoBody EXCEPT !.isObject = TRUE],
      [NoBody EXCEPT !.isObject = TRUE, !.message = <<"Not Found">>],
      [NoBody EXCEPT !.isObject = TRUE, !.detail = <<"Rate limited">>],
      [NoBody EXCEPT !.isObject = TRUE, !.message = <<"Bad value">>, !.field = <<"limit">>] }

Statuses == {400, 404, 418, 429, 500, 503}

\* How a request of apiClient ends.  via is the interceptor that maps the
\* AxiosError.
Settles ==
    [kind |-> "ok", status |-> 200, body |-> NoBody, message |-> <<>>, via |-> "response",
     thrown |-> JsUndefined]

Outcomes ==
    {Settles}
    \cup {[Settles EXCEPT !.kind = "response", !.status = s, !.body = b,
                          !.message = <<"Request failed with status code ", ToString(s)>>] :
            s \in Statuses, b \in Bodies}
    \cup {[Settles EXCEPT !.kind = "noResponse", !.status = 0, !.message = <<"Network Error">>]}
    \cup {[Settles EXCEPT !.kind = "setup", !.status = 0, !.message = msg, !.via = via] :
            msg \in {<<>>, <<"Invalid URL">>}, via \in {"request", "response"}}
    \cup {[Settles EXCEPT !.kind = "raw", !.status = 0, !.thrown = t] : t \in RawThrown}

createApiError(err, type) ==
    IF err.kind = "response"
    THEN [NoProps EXCEPT
            !.has = {"message", "type", "timestamp", "status", "detail"}
                    \cup (IF err.body.isObject /\ err.body.field # <<>>
                          THEN {"field"} ELSE {}),
            !.status = err.status,
            !.type = ResponseType(err.status),
            !.message = IF err.body.isObject
                        THEN Or(err.body.message,
                                Or(err.body.detail, getStatusMessage(err.status)))
                        ELSE getStatusMessage(err.status),
            !.field = IF err.body.isObject THEN err.body.field ELSE <<>>,
            !.detail = <<"HTTP ", ToString(err.status)>>]
    ELSE IF err.kind = "noResponse"
    THEN [NoProps EXCEPT
            !.has = {"message", "type", "timestamp", "detail"},
            !.type = "network",
            !.message = <<"Error de conexion. Verifique su conexion a internet.">>,
            !.detail = <<"No se pudo conectar con el servidor de PokeAPI">>]
    ELSE [NoProps EXCEPT
            !.has = {"message", "type", "timestamp", "detail"},
            !.type = "client",
            !.message = Or(err.message, <<"Error en la configuracion de la peticion">>),
            !.detail = err.message]

\* What apiClient.get rejects with.
Rejection(outcome) ==
    IF outcome.kind = "raw" THEN outcome.thrown
    ELSE createApiError(outcome, IF outcome.via = "request" THEN "client" ELSE "unknown")

ValidationError(message, field) ==
    [NoProps EXCEPT !.has = {"message", "type", "field", "timestamp"},
                    !.message = message, !.type = "validation", !.field = field]

\* The catch block of a service function: an ApiError is thrown on (with
\* the message of a 404 replaced where notFound is given), anything else
\* is wrapped.
Rethrown(err, notFound, unknown) ==
    IF isApiError(err)
    THEN IF notFound # <<>> /\ "status" \in err.has /\ err.status = 404
         THEN [err EXCEPT !.message = notFound]
         ELSE err
    ELSE [NoProps EXCEPT
            !.has = {"message", "type", "detail", "timestamp"},
            !.message = unknown,
            !.type = "unknown",
            !.detail = IF instanceofError(err) THEN err.message
                       ELSE <<"Error desconocido">>]

Resolved(cause) == [state |-> "resolved", error |-> JsUndefined, cause |-> cause]

Rejected(err, cause) == [state |-> "rejected", error |-> err, cause |-> cause]

Validation == [Settles EXCEPT !.kind = "validation"]

NoTypes == [Settles EXCEPT !.kind = "noTypes"]

Malformed == [Settles EXCEPT !.kind = "raw", !.thrown = TypeError]

getPokemonList(limit, offset, outcome) ==
    LET unknown == <<"Error al obtener la lista de Pokemon">> IN
    IF limit < 1 \/ limit > 1000
    THEN Rejected(Rethrown(ValidationError(<<"El limite debe estar entre 1 y 1000">>,
                                           <<"limit">>), <<>>, unknown), Validation)
    ELSE IF offset < 0
    THEN Rejected(Rethrown(ValidationError(<<"El offset debe ser mayor o igual a 0">>,
                                           <<"offset">>), <<>>, unknown), Validation)
    ELSE IF outcome.kind = "ok" THEN Resolved(outcome)
    ELSE Rejected(Rethrown(Rejection(outcome), <<>>, unknown), outcome)

\* The names are texts of one character per element.
NameAlphabet == {"a", "b", "e", "i", "m", "p", "u", "1", "-"}

ValidName(clean) == clean # <<>> /\ \A i \in DOMAIN clean : clean[i] \in NameAlphabet

getPokemonByName(name, outcome) ==
    LET unknown   == <<"Error al obtener el Pokemon ">> \o name
        notFound  == <<"No se encontro ningun Pokemon con el nombre ">> \o name
        cleanName == Lower(Trim(name))
    IN
    IF name = <<>> \/ Len(Trim(name)) = 0
    THEN Rejected(Rethrown(ValidationError(<<"El nombre del Pokemon es requerido">>,
                                           <<"name">>), notFound, unknown), Validation)
    ELSE IF ~ValidName(cleanName)
    THEN Rejected(Rethrown(ValidationError(
                      <<"El nombre del Pokemon contiene caracteres invalidos.">>,
                      <<"name">>), notFound, unknown), Validation)
    ELSE IF outcome.kind = "ok" THEN Resolved(outcome)
    ELSE Rejected(Rethrown(Rejection(outcome), notFound, unknown), outcome)

getPokemonById(id, outcome) ==
    LET unknown  == <<"Error al obtener el Pokemon con ID ", ToString(id)>>
        notFound == <<"No se encontro ningun Pokemon con el ID ", ToString(id)>>
    IN
    IF ~IsInteger(id) \/ id < 1
    THEN Rejected(Rethrown(ValidationError(
                      <<"El ID del Pokemon debe ser un numero entero mayor a 0">>,
                      <<"id">>), notFound, unknown), Validation)
    ELSE IF id > 10000
    THEN Rejected(Rethrown(ValidationError(
                      <<"El ID del Pokemon esta fuera del rango valido (1-10000)">>,
                      <<"id">>), notFound, unknown), Validation)
    ELSE IF outcome.kind = "ok" THEN Resolved(outcome)
    ELSE Rejected(Rethrown(Rejection(outcome), notFound, unknown), outcome)

\* details: how many of the listed types load, or "malformed" for a list
\* response without a results array.
getAllTypes(outcome, details) ==
    LET unknown == <<"Error al obtener los tipos de Pokemon">> IN
    IF outcome.kind # "ok" THEN Rejected(Rethrown(Rejection(outcome), <<>>, unknown), outcome)
    ELSE IF details = "malformed" THEN Rejected(Rethrown(TypeError, <<>>, unknown), Malformed)
    ELSE IF details = "none"
    THEN Rejected(Rethrown(
             [NoProps EXCEPT !.has = {"message", "type", "timestamp"},
                             !.message = <<"No se pudieron cargar los tipos de Pokemon">>,
                             !.type = "server"], <<>>, unknown), NoTypes)
    ELSE Resolved(outcome)

getPokemonsByType(typeId, outcome, details) ==
    LET unknown  == <<"Error al obtener Pokemon del tipo ", ToString(typeId)>>
        notFound == <<"No se encontro ningun tipo de Pokemon con el ID ", ToString(typeId)>>
    IN
    IF ~IsInteger(typeId) \/ typeId < 1
    THEN Rejected(Rethrown(ValidationError(
                      <<"El ID del tipo debe ser un numero entero mayor a 0">>,
                      <<"typeId">>), notFound, unknown), Validation)
    ELSE IF outcome.kind # "ok"
    THEN Rejected(Rethrown(Rejection(outcome), notFound, unknown), outcome)
    ELSE IF details = "malformed"
    THEN Rejected(Rethrown(TypeError, notFound, unknown), Malformed)
    ELSE Resolved(outcome)

Limits == {0, 20, 1001}

Offsets == {-1, 0, 20}

Ids == {-1, 0, 25, 10001}

Names == { <<>>, <<" ">>, <<"P", "i">>, <<"p", "!">>, <<" ", "m", "e", "-", "1">> }

DetailLoads == {"all", "some", "none", "malformed"}

InitApi ==
    /\ timers = {}
    /\ nextTimerId = 1
    /\ ev = [op |-> "init"]
    /\ FilterRest
    /\ FavRest
    /\ PokeRest
    /\ DebounceRest
    /\ UiRest
    /\ ApiRest

CallGetPokemonList(limit, offset, outcome) ==
    /\ settled' = getPokemonList(limit, offset, outcome)
    /\ ev' = [op |-> "getPokemonList"]
    /\ ApiFrame

CallGetPokemonByName(name, outcome) ==
    /\ settled' = getPokemonByName(name, outcome)
    /\ ev' = [op |-> "getPokemonByName"]
    /\ ApiFrame

CallGetPokemonById(id, outcome) ==
    /\ settled' = getPokemonById(id, outcome)
    /\ ev' = [op |-> "getPokemonById"]
    /\ ApiFrame

CallGetAllTypes(outcome, details) ==
    /\ settled' = getAllTypes(outcome, details)
    /\ ev' = [op |-> "getAllTypes"]
    /\ ApiFrame

CallGetPokemonsByType(typeId, outcome, details) ==
    /\ settled' = getPokemonsByType(typeId, outcome, details)
    /\ ev' = [op |-> "getPokemonsByType"]
    /\ ApiFrame

ApiNext ==
    \/ \E limit \in Limits, offset \in Offsets, outcome \in Outcomes :
          CallGetPokemonList(limit, offset, outcome)
    \/ \E name \in Names, outcome \in Outcomes : CallGetPokemonByName(name, outcome)
    \/ \E id \in Ids, outcome \in Outcomes : CallGetPokemonById(id, outcome)
    \/ \E outcome \in Outcomes, details \in DetailLoads : CallGetAllTypes(outcome, details)
    \/ \E typeId \in Ids, outcome \in Outcomes, details \in DetailLoads :
          CallGetPokemonsByType(typeId, outcome, details)

SpecApi == InitApi /\ [][ApiNext]_vars

(***************************************************************************)
(* C5.  What a service function rejects with is a plain object carrying a  *)
(* message and a type out of network, validation, server, client and       *)
(* unknown, never an Error; the type is server for an HTTP error response  *)
(* of status 500 or more and client for any other, network for a request   *)
(* without response, and unknown for a raw exception.                      *)
(***************************************************************************)
C5_UniformApiError ==
    settled.state = "rejected" =>
        /\ settled.error.typeof = "object" /\ ~settled.error.null
        /\ settled.error.class = "Object"
        /\ {"message", "type"} \subseteq settled.error.has
        /\ settled.error.message # <<>>
        /\ settled.error.type \in ApiErrorTypes
        /\ settled.cause.kind = "response" =>
              settled.error.type = IF settled.cause.status >= 500 THEN "server" ELSE "client"
        /\ settled.cause.kind = "noResponse" => settled.error.type = "network"
        /\ settled.cause.kind = "raw" => settled.error.type = "unknown"
        /\ settled.cause.kind = "validation" => settled.error.type = "validation"

\* getPokemonById is rejected for an HTTP 500 whose body carries no message.
C5_Witness ==
    /\ ev.op = "getPokemonById"
    /\ settled.state = "rejected"
    /\ settled.cause.kind = "response" /\ settled.cause.status = 500
    /\ settled.error.type = "server"
    /\ settled.error.message = getStatusMessage(500)

(***************************************************************************)
(* useDebounce / useDebounceWithControls (composables/useDebounce.ts)      *)
(*                                                                         *)
(* One instance, owned by one component.  withControls tells which of the  *)
(* two composables made it.  The source ref belongs to the caller and can  *)
(* be written after the component has unmounted.                           *)
(***************************************************************************)
\* delay: number = 300
DefaultDelay == 300

Delays == {DefaultDelay, TickMs}

DebounceValues == {"", "p", "pi"}

InitDebounce ==
    /\ timers = {}
    /\ nextTimerId = 1
    /\ ev = [op |-> "init"]
    /\ FilterRest
    /\ FavRest
    /\ PokeRest
    /\ ApiRest
    /\ sourceRef \in DebounceValues
    /\ debouncedValue = sourceRef
    /\ latestValue = sourceRef
    /\ isPending = FALSE
    /\ timeoutId = 0
    /\ debounceWatcher = [active |-> TRUE, queued |-> FALSE]
    /\ mounted = TRUE
    /\ withControls \in BOOLEAN
    /\ delay \in Delays
    /\ atUnmount = NotUnmounted
    /\ sinceSource = 0
    /\ debounceLog = NothingCancelled
    /\ UiRest

\* A write of the source ref; the watcher is triggered while it is active.
SetSource(v) ==
    /\ v # sourceRef
    /\ debounceWatcher.active => nextTimerId <= MaxTimers
    /\ sourceRef' = v
    /\ debounceWatcher' = [debounceWatcher EXCEPT !.queued = debounceWatcher.active]
    /\ sinceSource' = 0
    /\ debounceLog' = [debounceLog EXCEPT !.cancelled = FALSE]
    /\ UNCHANGED <<timers, nextTimerId, debouncedValue, latestValue, isPending, timeoutId,
                   mounted, withControls, delay, atUnmount>>
    /\ ev' = [op |-> "setSource"]
    /\ DebounceFrame

\* clearExistingTimeout: the timers it leaves
ClearedTimers == IF timeoutId # 0 THEN ClearTimeout(timers, timeoutId) ELSE timers

\* updateDebouncedValue's clearExistingTimeout: the timers it leaves
StackedTimers == timers

RestartedTimers == ClearedTimers

\* updateDebouncedValue, run by the watcher before the next task
DebounceWatcherRun ==
    /\ debounceWatcher.queued
    /\ debounceWatcher' = [debounceWatcher EXCEPT !.queued = FALSE]
    /\ latestValue' = IF withControls THEN sourceRef ELSE latestValue
    /\ isPending' = withControls
    /\ timers' = SetTimeout(RestartedTimers, nextTimerId, sourceRef, delay)
    /\ timeoutId' = nextTimerId
    /\ nextTimerId' = nextTimerId + 1
    /\ debounceLog' = [debounceLog EXCEPT !.replaced = @ \/ timeoutId # 0]
    /\ UNCHANGED <<sourceRef, debouncedValue, mounted, withControls, delay, atUnmount,
                   sinceSource>>
    /\ ev' = [op |-> "debounceWatcher"]
    /\ DebounceFrame

\* The timer's callback
DebounceTimerFire ==
    /\ ~debounceWatcher.queued
    /\ \E t \in timers :
          /\ TimerDue(t)
          /\ timers' = timers \ {t}
          /\ debouncedValue' = IF withControls THEN latestValue ELSE t.value
    /\ timeoutId' = 0
    /\ isPending' = IF withControls THEN FALSE ELSE isPending
    /\ debounceLog' = [debounceLog EXCEPT !.replaced = FALSE]
    /\ UNCHANGED <<nextTimerId, sourceRef, latestValue, debounceWatcher, mounted,
                   withControls, delay, atUnmount, sinceSource>>
    /\ ev' = [op |-> "debounceTimer", replaced |-> debounceLog.replaced]
    /\ DebounceFrame

\* TickMs milliseconds pass.
DebounceTick ==
    /\ ~debounceWatcher.queued
    /\ \A t \in timers : ~TimerDue(t)
    /\ timers # {} \/ (~mounted /\ atUnmount.clock < delay) \/ sinceSource < delay
    /\ timers' = Elapse(timers)
    /\ sinceSource' = Min(delay, sinceSource + TickMs)
    /\ atUnmount' = IF mounted THEN atUnmount
                    ELSE [atUnmount EXCEPT !.clock = Min(delay, @ + TickMs)]
    /\ UNCHANGED <<nextTimerId, sourceRef, debouncedValue, latestValue, isPending, timeoutId,
                   debounceWatcher, mounted, withControls, delay, debounceLog>>
    /\ ev' = [op |-> "tick"]
    /\ DebounceFrame

\* cancel's clearExistingTimeout: the timers it leaves
KeptOnCancel == timers

ClearedOnCancel == ClearedTimers

cancel ==
    /\ withControls
    /\ ~debounceWatcher.queued
    /\ timers' = ClearedOnCancel
    /\ timeoutId' = 0
    /\ isPending' = IF timeoutId # 0 THEN FALSE ELSE isPending
    /\ debounceLog' = IF timeoutId # 0
                      THEN [debounceLog EXCEPT !.cancelled = TRUE, !.value = latestValue,
                                               !.debounced = debouncedValue]
                      ELSE debounceLog
    /\ UNCHANGED <<nextTimerId, sourceRef, debouncedValue, latestValue, debounceWatcher,
                   mounted, withControls, delay, atUnmount, sinceSource>>
    /\ ev' = [op |-> "cancel", pending |-> timeoutId # 0, before |-> debouncedValue]
    /\ DebounceFrame

\* flush: debouncedValue.value = latestValue
FlushKept == debouncedValue

FlushedValue == latestValue

flush ==
    /\ withControls
    /\ ~debounceWatcher.queued
    /\ timers' = ClearedTimers
    /\ timeoutId' = 0
    /\ isPending' = IF timeoutId # 0 THEN FALSE ELSE isPending
    /\ debouncedValue' = IF timeoutId # 0 THEN FlushedValue ELSE debouncedValue
    /\ UNCHANGED <<nextTimerId, sourceRef, latestValue, debounceWatcher, mounted,
                   withControls, delay, atUnmount, sinceSource, debounceLog>>
    /\ ev' = [op |-> "flush", pending |-> timeoutId # 0, before |-> debouncedValue]
    /\ DebounceFrame

\* onUnmounted without its clearExistingTimeout
KeptOnUnmount == timers

\* onUnmounted: clearExistingTimeout
ClearedOnUnmount == ClearedTimers

\* The owning component unmounts: the onUnmounted hook runs, and a watcher
\* job that is still queued finds its watcher stopped.
Unmount ==
    /\ mounted
    /\ mounted' = FALSE
    /\ timers' = ClearedOnUnmount
    /\ timeoutId' = 0
    /\ isPending' = IF timeoutId # 0 /\ withControls THEN FALSE ELSE isPending
    /\ debounceWatcher' = [active |-> FALSE, queued |-> FALSE]
    /\ atUnmount' = [done |-> TRUE, debounced |-> debouncedValue, source |-> sourceRef,
                     pending |-> timeoutId # 0 \/ debounceWatcher.queued, clock |-> 0]
    /\ UNCHANGED <<nextTimerId, sourceRef, debouncedValue, latestValue, withControls, delay,
                   sinceSource, debounceLog>>
    /\ ev' = [op |-> "unmount"]
    /\ DebounceFrame

DebounceNext ==
    \/ \E v \in DebounceValues : SetSource(v)
    \/ DebounceWatcherRun
    \/ DebounceTimerFire
    \/ DebounceTick
    \/ cancel
    \/ flush
    \/ Unmount

SpecDebounce == InitDebounce /\ [][DebounceNext]_vars

StoreInFlight == 1

\* The Partial<PokemonFilters> values updateFilters is called with.
FilterPatches ==
    { [search |-> <<"p", "i">>], [type |-> "fire"], [search |-> <<>>, type |-> Null] }

\* filters.value = { ...filters.value, ...newFilters }
updateFilters(S, newFilters) ==
    [S EXCEPT !.filters = [f \in {"search", "type"} |->
                              IF f \in DOMAIN newFilters THEN newFilters[f] ELSE @[f]]]

clearStoreFilters(S) == [S EXCEPT !.filters = [search |-> <<>>, type |-> Null]]

resetError(S) == [S EXCEPT !.error = Null]

clearCurrentPokemon(S) == [S EXCEPT !.currentPokemon = NoPokemon]

\* pokemonCache.value.clear()
CacheKept(cache) == cache

CacheCleared(cache) == {}

resetStore(S) ==
    [S EXCEPT !.pokemons = <<>>,
              !.currentPokemon = NoPokemon,
              !.totalCount = 0,
              !.currentPage = 1,
              !.isLoading = FALSE,
              !.error = Null,
              !.filters = [search |-> <<>>, type |-> Null],
              !.pokemonCache = CacheCleared(@)]

\* What a store function called directly leaves alone.
StoreFrame ==
    /\ UNCHANGED <<route, debouncedSearchQuery, selectedType>>
    /\ PokeFrame

\* The fields of the store that differ from their initial value (history).
Dirty(S) ==
    {f \in {"pokemons", "currentPokemon", "totalCount", "currentPage", "isLoading",
            "error", "filters", "pokemonCache"} :
        S[f] # resetStore(S)[f]}

InitStore ==
    /\ timers = {}
    /\ nextTimerId = 1
    /\ ev = [op |-> "init"]
    /\ FilterRest
    /\ FavRest
    /\ PokeRest
    /\ ApiRest
    /\ DebounceRest
    /\ UiRest

CallFetchPokemons(page) ==
    /\ Len(calls) < StoreInFlight
    /\ Commit(fetchPokemons(Store, page, TRUE))
    /\ ev' = [op |-> "fetchPokemons", page |-> page]
    /\ StoreFrame

CallFetchPokemonDetail(id) ==
    /\ Len(calls) < StoreInFlight
    /\ LET S2 == fetchPokemonDetail(Store, id) IN
       /\ Commit(S2)
       /\ ev' = IF Len(S2.calls) = Len(calls)
                THEN [op |-> "fetchPokemonDetailDone", id |-> id, ok |-> S2.error = Null,
                      returned |-> S2.currentPokemon, message |-> S2.error]
                ELSE [op |-> "fetchPokemonDetail", id |-> id]
    /\ StoreFrame

CallUpdateFilters(newFilters) ==
    /\ Commit(updateFilters(Store, newFilters))
    /\ ev' = [op |-> "updateFilters"]
    /\ StoreFrame

CallClearFilters ==
    /\ Commit(clearStoreFilters(Store))
    /\ ev' = [op |-> "clearFilters"]
    /\ StoreFrame

CallResetError ==
    /\ Commit(resetError(Store))
    /\ ev' = [op |-> "resetError"]
    /\ StoreFrame

CallClearCurrentPokemon ==
    /\ Commit(clearCurrentPokemon(Store))
    /\ ev' = [op |-> "clearCurrentPokemon"]
    /\ StoreFrame

CallResetStore ==
    /\ Commit(resetStore(Store))
    /\ ev' = [op |-> "resetStore", dirty |-> Dirty(Store), waiting |-> Len(calls)]
    /\ StoreFrame

StoreNext ==
    \/ \E page \in 0..ServerCount : CallFetchPokemons(page)
    \/ \E id \in DetailIds : CallFetchPokemonDetail(id)
    \/ \E newFilters \in FilterPatches : CallUpdateFilters(newFilters)
    \/ CallClearFilters
    \/ CallResetError
    \/ CallClearCurrentPokemon
    \/ CallResetStore
    \/ \E i \in 1..StoreInFlight : ListResponseOk(i)
    \/ \E i \in 1..StoreInFlight, err \in RequestErrors : ListResponseFailed(i, err)
    \/ \E i \in 1..StoreInFlight, k \in 1..PageSize, ok \in BOOLEAN : DetailResponse(i, k, ok)
    \/ \E i \in 1..StoreInFlight : PokemonResponseOk(i)
    \/ \E i \in 1..StoreInFlight, err \in RequestErrors : PokemonResponseFailed(i, err)

SpecStore == InitStore /\ [][StoreNext]_vars

(***************************************************************************)
(* C11.  Right after resetStore every field of the pokemon store has its   *)
(* initial value, whatever the state it was called in: pokemons empty,     *)
(* currentPokemon null, totalCount 0, currentPage 1, isLoading false,      *)
(* error null, filters {search: '', type: null}, the detail cache empty    *)
(* (and itemsPerPage, which the store never writes, as constructed).       *)
(***************************************************************************)
C11_ResetStoreInitial ==
    ev.op = "resetStore" =>
        /\ pokemons = <<>>
        /\ currentPokemon = NoPokemon
        /\ totalCount = 0
        /\ currentPage = 1
        /\ isLoading = FALSE
        /\ error = Null
        /\ filters = NoFilters
        /\ pokemonCache = {}
        /\ itemsPerPage = PageSize

\* resetStore is called with a list, a cache and filters in place.
C11_Witness ==
    /\ ev.op = "resetStore"
    /\ {"pokemons", "totalCount", "filters", "pokemonCache"} \subseteq ev.dirty

(***************************************************************************)
(* The pagination getters of the pokemon store                             *)
(***************************************************************************)
\* The largest totalCount, itemsPerPage and currentPage the getters are read
\* with.
MaxCount == 7
MaxPerPage == 4
MaxPageNo == 4

\* Math.min(currentPage * itemsPerPage, totalCount)
EndItemUncapped(S) == S.currentPage * S.itemsPerPage

EndItem(S) == Min(S.currentPage * S.itemsPerPage, S.totalCount)

paginationInfo(S) ==
    [startItem |-> ((S.currentPage - 1) * S.itemsPerPage) + 1,
     endItem |-> EndItem(S),
     totalItems |-> S.totalCount,
     currentPage |-> S.currentPage,
     totalPages |-> totalPages(S)]

\* The store with any count, page size and page in its refs.
InitPagination ==
    /\ timers = {}
    /\ nextTimerId = 1
    /\ ev = [op |-> "init"]
    /\ FilterRest
    /\ FavRest
    /\ pokemons = <<>>
    /\ currentPokemon = NoPokemon
    /\ totalCount \in 0..MaxCount
    /\ isLoading = FALSE
    /\ error = Null
    /\ currentPage \in 1..MaxPageNo
    /\ itemsPerPage \in 1..MaxPerPage
    /\ pokemonCache = {}
    /\ filters = NoFilters
    /\ calls = <<>>
    /\ lastList = NoList
    /\ route = "none"
    /\ ApiRest
    /\ DebounceRest
    /\ UiRest

\* A reader evaluates both getters.
ReadPagination ==
    /\ ev.op = "init"
    /\ ev' = [op |-> "paginationInfo", totalPages |-> totalPages(Store),
              info |-> paginationInfo(Store)]
    /\ UNCHANGED <<timers, nextTimerId, filterVars, favVars, pokeVars, settled,
                   debounceVars, uiVars>>

PaginationNext == ReadPagination

SpecPagination == InitPagination /\ [][PaginationNext]_vars

\* The least whole number of pages that hold count items.
Ceil(count, perPage) ==
    CHOOSE n \in 0..count : n * perPage >= count /\ (n = 0 \/ (n - 1) * perPage < count)

(***************************************************************************)
(* C12.  For every totalCount >= 0, itemsPerPage >= 1 and currentPage >= 1 *)
(* totalPages is ceil(totalCount / itemsPerPage), 0 for an empty           *)
(* catalogue, and paginationInfo has startItem = (currentPage - 1) *       *)
(* itemsPerPage + 1, endItem = min(currentPage * itemsPerPage,             *)
(* totalCount), totalItems = totalCount and the same currentPage and       *)
(* totalPages.                                                             *)
(***************************************************************************)
C12_Pagination ==
    ev.op = "paginationInfo" =>
        /\ ev.totalPages = Ceil(totalCount, itemsPerPage)
        /\ (totalCount = 0 => ev.totalPages = 0)
        /\ ev.info.startItem = (currentPage - 1) * itemsPerPage + 1
        /\ ev.info.endItem = IF currentPage * itemsPerPage < totalCount
                             THEN currentPage * itemsPerPage ELSE totalCount
        /\ ev.info.totalItems = totalCount
        /\ ev.info.currentPage = currentPage
        /\ ev.info.totalPages = ev.totalPages

\* The getters are read on a last page that is not full.
C12_Witness ==
    /\ ev.op = "paginationInfo"
    /\ totalCount = MaxCount /\ itemsPerPage = 3 /\ currentPage = 3
    /\ ev.info.endItem = MaxCount /\ ev.totalPages = 3

(***************************************************************************)
(* PokemonCard (components/pokemon/PokemonCard.vue)                        *)
(***************************************************************************)
\* Events a mounted card may emit before it is mounted again.
MaxEmitted == 2

\* The elements of the card's template, by class, each with its parent.
Parent ==
    [e \in {"pokemon-card", "pokemon-image-container", "pokemon-image",
            "pokemon-placeholder", "pokemon-info", "pokemon-number", "pokemon-name",
            "pokemon-types", "type-badge", "hover-overlay"} |->
        CASE e = "pokemon-card" -> "none"
          [] e \in {"pokemon-image", "pokemon-placeholder"} -> "pokemon-image-container"
          [] e \in {"pokemon-number", "pokemon-name", "pokemon-types"} -> "pokemon-info"
          [] e = "type-badge" -> "pokemon-types"
          [] OTHER -> "pokemon-card"]

\* The elements the card renders: the image or its placeholder (v-if / v-else
\* on pokemonImageUrl, null once the image failed to load).
Rendered(failed) ==
    DOMAIN Parent \ (IF failed THEN {"pokemon-image"} ELSE {"pokemon-placeholder"})

\* The selectors a click is aimed at: the card's elements and the favourite
\* button the views and the component's tests expect.
Selectors == DOMAIN Parent \cup {"favorite-button"}

\* The @click listeners of an element of the template.
ClickListeners(e) == IF e = "pokemon-card" THEN <<"handleClick">> ELSE <<>>

\* The listeners a click on e runs, from e up to the root (no listener of the
\* template stops the propagation).
RECURSIVE Bubble(_)
Bubble(e) == IF e = "none" THEN <<>> ELSE ClickListeners(e) \o Bubble(Parent[e])

\* handleClick: emit('click', props.pokemon)
handleClick(pokemon) == [event |-> "click", pokemon |-> pokemon]

\* The events the listeners emit, in order.
Emits(listeners, pokemon) == [i \in DOMAIN listeners |-> handleClick(pokemon)]

CardFrame ==
    UNCHANGED <<timers, nextTimerId, filterVars, favVars, pokeVars, settled, debounceVars,
                darkVars, themeVars, now, typesCall>>

InitCard ==
    /\ timers = {}
    /\ nextTimerId = 1
    /\ ev = [op |-> "init"]
    /\ FilterRest
    /\ FavRest
    /\ PokeRest
    /\ ApiRest
    /\ DebounceRest
    /\ UiRest

\* A view renders the card for a Pokemon.
MountCard(id) ==
    /\ cardPokemon' = id
    /\ imageError' = FALSE
    /\ emitted' = <<>>
    /\ ev' = [op |-> "mount", id |-> id]
    /\ CardFrame

\* handleImageError
ImageError ==
    /\ cardPokemon # 0
    /\ ~imageError
    /\ imageError' = TRUE
    /\ ev' = [op |-> "imageError"]
    /\ UNCHANGED <<cardPokemon, emitted>>
    /\ CardFrame

\* A click on the element of the card the selector finds, if there is one.
ClickCard(selector) ==
    /\ cardPokemon # 0
    /\ Len(emitted) < MaxEmitted
    /\ LET found == selector \in Rendered(imageError)
           out   == IF found THEN Emits(Bubble(selector), cardPokemon) ELSE <<>>
       IN  /\ emitted' = emitted \o out
           /\ ev' = [op |-> "click", selector |-> selector, found |-> found,
                     emitted |-> out]
    /\ UNCHANGED <<cardPokemon, imageError>>
    /\ CardFrame

CardNext ==
    \/ \E id \in 1..ServerCount : MountCard(id)
    \/ ImageError
    \/ \E selector \in Selectors : ClickCard(selector)

SpecCard == InitCard /\ [][CardNext]_vars

(***************************************************************************)
(* C13.  A click on the card's favourite button emits exactly one          *)
(* toggleFavorite event carrying the card's Pokemon and no click event; a  *)
(* click on the card itself emits click carrying the Pokemon.              *)
(***************************************************************************)
C13_FavoriteButton ==
    /\ (ev.op = "click" /\ ev.selector = "favorite-button") =>
           ev.emitted = <<[event |-> "toggleFavorite", pokemon |-> cardPokemon]>>
    /\ (ev.op = "click" /\ ev.selector = "pokemon-card") =>
           ev.emitted = <<[event |-> "click", pokemon |-> cardPokemon]>>

(***************************************************************************)
(* C14.  useDebounce(source, delay), while its component is mounted and    *)
(* the source is changed by assigning values: once delay ms have passed    *)
(* without a change, debouncedValue is the last source value; and          *)
(* debouncedValue changes only to a value the source has held for delay    *)
(* ms, so a value replaced sooner never appears in it.                     *)
(***************************************************************************)
C14_Settled ==
    (/\ ~withControls
     /\ mounted
     /\ ~debounceWatcher.queued
     /\ sinceSource >= delay
     /\ \A t \in timers : ~TimerDue(t)) => debouncedValue = sourceRef

C14_Step ==
    /\ (~withControls /\ debouncedValue' # debouncedValue) =>
           (debouncedValue' = sourceRef /\ sinceSource >= delay)
    /\ C14_Settled'

BoolText(b) == IF b THEN "true" ELSE "false"

\* getSavedTheme's result, as the text it is read from (Null: null)
getSavedTheme(stored) == stored

\* saveTheme: the stored text after it, setItem throwing or not
saveTheme(stored, darkMode, throws) == IF throws THEN stored ELSE BoolText(darkMode)

\* The module's refs and what its effects touch, as one value.
Dark ==
    [isDarkMode |-> isDarkMode, rootDark |-> rootDark, darkStorage |-> darkStorage]

\* The watchEffect: applyDarkModeClass and saveTheme of the current value.
ThemeEffect(D, throws) ==
    [D EXCEPT !.rootDark = D.isDarkMode,
              !.darkStorage = saveTheme(@, D.isDarkMode, throws)]

\* A write of isDarkMode followed by the effect it triggers when the value
\* changed.
WriteDark(D, value, throws) ==
    IF value # D.isDarkMode THEN ThemeEffect([D EXCEPT !.isDarkMode = value], throws)
    ELSE D

\* initializeDarkMode, with the effect its write of isDarkMode triggers.
initializeDarkMode(D, prefersDark, throws) ==
    LET savedTheme == getSavedTheme(D.darkStorage)
        value == IF savedTheme # Null THEN savedTheme = "true" ELSE prefersDark
        d1 == [D EXCEPT !.isDarkMode = value, !.rootDark = value,
                        !.darkStorage = IF savedTheme = Null
                                        THEN saveTheme(@, value, throws) ELSE @]
    IN  IF value # D.isDarkMode THEN ThemeEffect(d1, throws) ELSE d1

CommitDark(D) ==
    /\ isDarkMode' = D.isDarkMode
    /\ rootDark' = D.rootDark
    /\ darkStorage' = D.darkStorage

DarkFrame ==
    UNCHANGED <<timers, nextTimerId, filterVars, favVars, pokeVars, settled, debounceVars,
                cardVars, themeVars, now, typesCall>>

\* The first visit: nothing stored, the page not yet running.
InitDarkMode ==
    /\ timers = {}
    /\ nextTimerId = 1
    /\ ev = [op |-> "init"]
    /\ FilterRest
    /\ FavRest
    /\ PokeRest
    /\ ApiRest
    /\ DebounceRest
    /\ CardRest
    /\ ThemeRest
    /\ ClockRest
    /\ TypesRest
    /\ systemDark \in BOOLEAN
    /\ rootDark = FALSE
    /\ isDarkMode = FALSE
    /\ darkStorage = Null
    /\ darkLoaded = FALSE
    /\ darkAtLoad = [saved |-> Null, untouched |-> TRUE]
    /\ userChose = FALSE

\* The module is imported: isDarkMode = ref(false), and the watchEffect runs
\* once at once.
LoadDarkModule(throws) ==
    /\ ~darkLoaded
    /\ darkLoaded' = TRUE
    /\ CommitDark(ThemeEffect([Dark EXCEPT !.isDarkMode = FALSE], throws))
    /\ UNCHANGED <<systemDark, darkAtLoad, userChose>>
    /\ ev' = [op |-> "loadModule"]
    /\ DarkFrame

CallInitializeDarkMode(throws) ==
    /\ darkLoaded
    /\ CommitDark(initializeDarkMode(Dark, systemDark, throws))
    /\ UNCHANGED <<systemDark, darkLoaded, darkAtLoad, userChose>>
    /\ ev' = [op |-> "initializeDarkMode", untouched |-> darkAtLoad.untouched]
    /\ DarkFrame

toggleDarkMode(throws) ==
    /\ darkLoaded
    /\ CommitDark(WriteDark(Dark, ~isDarkMode, throws))
    /\ userChose' = TRUE
    /\ darkAtLoad' = [darkAtLoad EXCEPT !.untouched = FALSE]
    /\ UNCHANGED <<systemDark, darkLoaded>>
    /\ ev' = [op |-> "toggleDarkMode"]
    /\ DarkFrame

setDarkMode(darkMode, throws) ==
    /\ darkLoaded
    /\ CommitDark(WriteDark(Dark, darkMode, throws))
    /\ userChose' = TRUE
    /\ darkAtLoad' = [darkAtLoad EXCEPT !.untouched = FALSE]
    /\ UNCHANGED <<systemDark, darkLoaded>>
    /\ ev' = [op |-> "setDarkMode"]
    /\ DarkFrame

\* The system preference changes; handleSystemThemeChange runs on a page that
\* has imported the module.
SystemThemeChange(matches, throws) ==
    /\ matches # systemDark
    /\ systemDark' = matches
    /\ IF darkLoaded /\ getSavedTheme(darkStorage) = Null
       THEN CommitDark(WriteDark(Dark, matches, throws))
       ELSE UNCHANGED <<isDarkMode, rootDark, darkStorage>>
    /\ darkAtLoad' = [darkAtLoad EXCEPT !.untouched = @ /\ ~darkLoaded]
    /\ UNCHANGED <<darkLoaded, userChose>>
    /\ ev' = [op |-> "systemThemeChange"]
    /\ DarkFrame

\* The page is loaded again: localStorage stays, everything else is new.
ReloadPage ==
    /\ darkLoaded
    /\ darkLoaded' = FALSE
    /\ isDarkMode' = FALSE
    /\ rootDark' = FALSE
    /\ darkAtLoad' = [saved |-> darkStorage, untouched |-> TRUE]
    /\ UNCHANGED <<systemDark, darkStorage, userChose>>
    /\ ev' = [op |-> "reload"]
    /\ DarkFrame

DarkModeNext ==
    \/ \E throws \in BOOLEAN : LoadDarkModule(throws)
    \/ \E throws \in BOOLEAN : CallInitializeDarkMode(throws)
    \/ \E throws \in BOOLEAN : toggleDarkMode(throws)
    \/ \E darkMode \in BOOLEAN, throws \in BOOLEAN : setDarkMode(darkMode, throws)
    \/ \E matches \in BOOLEAN, throws \in BOOLEAN : SystemThemeChange(matches, throws)
    \/ ReloadPage

SpecDarkMode == InitDarkMode /\ [][DarkModeNext]_vars

(***************************************************************************)
(* C17.  initializeDarkMode picks the theme by priority: the preference    *)
(* the page found saved in localStorage if there is one, otherwise the     *)
(* system preference, otherwise light; in particular, when the user has    *)
(* never saved a preference and the system prefers dark, the app starts    *)
(* in dark mode.                                                           *)
(***************************************************************************)
C17_ThemePriority ==
    /\ (ev.op = "initializeDarkMode" /\ ev.untouched) =>
           isDarkMode = IF darkAtLoad.saved # Null THEN darkAtLoad.saved = "true"
                        ELSE systemDark
    /\ (ev.op = "initializeDarkMode" /\ ~userChose /\ systemDark) => isDarkMode

(***************************************************************************)
(* The ui store (stores/ui.store): the theme                               *)
(*                                                                         *)
(* A theme is "light" or "dark"; a stored text is a theme or Null.         *)
(***************************************************************************)
\* Listeners one page may put on the system preference (initializeTheme adds
\* one each time it runs).
MaxListeners == 2

DEFAULT_THEME == "light"

Themes == {"light", "dark"}

themeClass(isDark) == IF isDark THEN "dark" ELSE "light"

\* saveThemeToStorage: the stored text after it, setItem throwing or not
NotSaved(stored, theme, throws) == stored

saveThemeToStorage(stored, theme, throws) == IF throws THEN stored ELSE theme

\* The store's refs and what its functions touch, as one value.
Ui ==
    [isDarkMode |-> uiIsDarkMode, rootDark |-> rootDark, themeStorage |-> themeStorage,
     themeInitialized |-> themeInitialized, themeListeners |-> themeListeners]

\* toggleDarkMode of the store (the catch block is never entered:
\* updateRootClass and saveThemeToStorage catch what they throw).
uiToggleDarkMode(U, throws) ==
    LET newTheme == themeClass(~U.isDarkMode) IN
    [U EXCEPT !.isDarkMode = ~U.isDarkMode,
              !.rootDark = newTheme = "dark",
              !.themeStorage = saveThemeToStorage(@, newTheme, throws)]

setTheme(U, requested, throws) ==
    LET theme == IF requested \notin Themes THEN DEFAULT_THEME ELSE requested
        wasChanged == U.isDarkMode # (theme = "dark")
    IN  IF wasChanged
        THEN [U EXCEPT !.isDarkMode = theme = "dark",
                       !.rootDark = theme = "dark",
                       !.themeStorage = saveThemeToStorage(@, theme, throws)]
        ELSE U

\* initializeTheme; denied: reading localStorage throws (the catch block).
initializeTheme(U, prefersDark, denied) ==
    IF denied
    THEN [U EXCEPT !.isDarkMode = DEFAULT_THEME = "dark",
                   !.rootDark = DEFAULT_THEME = "dark",
                   !.themeInitialized = TRUE]
    ELSE LET stored == U.themeStorage
             savedTheme == IF stored \in Themes THEN stored
                           ELSE themeClass(prefersDark)
         IN  [U EXCEPT !.isDarkMode = savedTheme = "dark",
                       !.rootDark = savedTheme = "dark",
                       !.themeInitialized = TRUE,
                       !.themeListeners = @ + 1]

\* handleSystemThemeChange of one listener
handleSystemThemeChange(U, matches, throws) ==
    IF U.themeStorage = Null THEN setTheme(U, themeClass(matches), throws) ELSE U

\* Every listener of the page runs its handler.
RECURSIVE RunListeners(_, _, _, _)
RunListeners(U, n, matches, throws) ==
    IF n = 0 THEN U
    ELSE RunListeners(handleSystemThemeChange(U, matches, throws), n - 1, matches, throws)

\* A store created on a page with this storage and system preference.
FreshUi(stored) ==
    [isDarkMode |-> FALSE, rootDark |-> FALSE, themeStorage |-> stored,
     themeInitialized |-> FALSE, themeListeners |-> 0]

CommitUi(U) ==
    /\ uiIsDarkMode' = U.isDarkMode
    /\ rootDark' = U.rootDark
    /\ themeStorage' = U.themeStorage
    /\ themeInitialized' = U.themeInitialized
    /\ themeListeners' = U.themeListeners

ThemeFrame ==
    UNCHANGED <<timers, nextTimerId, filterVars, favVars, pokeVars, settled, debounceVars,
                cardVars, isDarkMode, darkStorage, darkLoaded, darkAtLoad, userChose, now,
                typesCall>>

\* The first visit: nothing stored, the store not yet created.
InitTheme ==
    /\ timers = {}
    /\ nextTimerId = 1
    /\ ev = [op |-> "init"]
    /\ FilterRest
    /\ FavRest
    /\ PokeRest
    /\ ApiRest
    /\ DebounceRest
    /\ CardRest
    /\ ThemeRest
    /\ ClockRest
    /\ TypesRest
    /\ systemDark \in BOOLEAN
    /\ rootDark = FALSE
    /\ isDarkMode = FALSE
    /\ darkStorage = Null
    /\ darkLoaded = FALSE
    /\ darkAtLoad = [saved |-> Null, untouched |-> TRUE]
    /\ userChose = FALSE

\* The first useUiStore() of a page: the setup function ends with
\* initializeStore.
CreateUiStore(denied) ==
    /\ ~uiCreated
    /\ uiCreated' = TRUE
    /\ CommitUi(initializeTheme(FreshUi(themeStorage), systemDark, denied))
    /\ UNCHANGED systemDark
    /\ ev' = [op |-> "initializeTheme"]
    /\ ThemeFrame

\* App.vue's onMounted (or any caller) runs initializeTheme again.
CallInitializeTheme(denied) ==
    /\ uiCreated
    /\ themeListeners < MaxListeners
    /\ CommitUi(initializeTheme(Ui, systemDark, denied))
    /\ UNCHANGED <<systemDark, uiCreated>>
    /\ ev' = [op |-> "initializeTheme"]
    /\ ThemeFrame

CallToggleDarkMode(throws) ==
    /\ uiCreated
    /\ CommitUi(uiToggleDarkMode(Ui, throws))
    /\ UNCHANGED <<systemDark, uiCreated>>
    /\ ev' = [op |-> "toggleDarkMode", changed |-> TRUE, throws |-> throws]
    /\ ThemeFrame

CallSetTheme(theme, throws) ==
    /\ uiCreated
    /\ CommitUi(setTheme(Ui, theme, throws))
    /\ UNCHANGED <<systemDark, uiCreated>>
    /\ ev' = [op |-> "setTheme", changed |-> setTheme(Ui, theme, throws).isDarkMode # uiIsDarkMode,
              throws |-> throws]
    /\ ThemeFrame

\* resetUiState: setTheme(DEFAULT_THEME)
resetUiState(throws) ==
    /\ uiCreated
    /\ CommitUi(setTheme(Ui, DEFAULT_THEME, throws))
    /\ UNCHANGED <<systemDark, uiCreated>>
    /\ ev' = [op |-> "resetUiState"]
    /\ ThemeFrame

\* The system preference changes.
UiSystemThemeChange(matches, throws) ==
    /\ matches # systemDark
    /\ systemDark' = matches
    /\ CommitUi(RunListeners(Ui, themeListeners, matches, throws))
    /\ UNCHANGED uiCreated
    /\ ev' = [op |-> "systemThemeChange"]
    /\ ThemeFrame

\* The page is loaded again: localStorage stays, everything else is new.
UiReloadPage ==
    /\ uiCreated
    /\ uiCreated' = FALSE
    /\ CommitUi(FreshUi(themeStorage))
    /\ UNCHANGED systemDark
    /\ ev' = [op |-> "reload"]
    /\ ThemeFrame

ThemeNext ==
    \/ \E denied \in BOOLEAN : CreateUiStore(denied)
    \/ \E denied \in BOOLEAN : CallInitializeTheme(denied)
    \/ \E throws \in BOOLEAN : CallToggleDarkMode(throws)
    \/ \E theme \in Themes \cup {"sepia"}, throws \in BOOLEAN : CallSetTheme(theme, throws)
    \/ \E throws \in BOOLEAN : resetUiState(throws)
    \/ \E matches \in BOOLEAN, throws \in BOOLEAN : UiSystemThemeChange(matches, throws)
    \/ UiReloadPage

SpecTheme == InitTheme /\ [][ThemeNext]_vars

\* isDarkMode of a store created anew on this localStorage, under a system
\* preference.
Restored(prefersDark) == initializeTheme(FreshUi(themeStorage), prefersDark, FALSE).isDarkMode

ClockPeriod == 3

CacheTick ==
    /\ now' = (now + 1) % ClockPeriod
    /\ ev' = [op |-> "tick"]
    /\ UNCHANGED <<timers, nextTimerId, filterVars, favVars, pokeVars, settled, debounceVars,
                   cardVars, darkVars, themeVars, typesCall>>

\* fetchPokemonDetail(id) went to the API (it awaits getPokemonById).
SentToApi(id) == ev.op = "fetchPokemonDetail" /\ ev.id = id

CacheNext ==
    \/ \E id \in DetailIds : CallFetchPokemonDetail(id)
    \/ \E i \in 1..StoreInFlight : PokemonResponseOk(i)
    \/ \E i \in 1..StoreInFlight, err \in RequestErrors : PokemonResponseFailed(i, err)
    \/ CallClearCurrentPokemon
    \/ CallResetStore
    \/ CacheTick

SpecCache == InitStore /\ [][CacheNext]_vars

\* Time passes, every response arrives, and every id is asked for again and
\* again.
FairSpecCache ==
    /\ SpecCache
    /\ WF_vars(CacheTick)
    /\ WF_vars(\E i \in 1..StoreInFlight : PokemonResponseOk(i))
    /\ \A id \in 1..ServerCount : SF_vars(CallFetchPokemonDetail(id))

(***************************************************************************)
(* C19.  No cache entry is served for ever: while time passes and an id    *)
(* keeps being asked for, again and again either the cache does not hold   *)
(* the id or a request for it goes to the API (its time-to-live having     *)
(* elapsed).                                                               *)
(***************************************************************************)
C19_CacheExpires ==
    \A id \in 1..ServerCount : []<>(~CacheHas(Store, id) \/ SentToApi(id))

(***************************************************************************)
(* getAllTypes, request by request                                         *)
(*                                                                         *)
(* GET /type answers with a list of references; one GET /type/{id} per     *)
(* reference is started at once and each answers, or fails, in its own     *)
(* time.  Responses are those of the API: a list carries a results array   *)
(* of references with an id at the end of the url, and GET /type/{id}      *)
(* carries the type of that id.                                            *)
(***************************************************************************)
\* Types the server has.
MaxTypes == 3

TypeIds == 1..MaxTypes

TypeRef(id) == [name |-> FallbackTypes[id], url |-> <<"type", NumberToken(id)>>]

\* GET /type/{id}
TypeDetail(id) == [id |-> id, name |-> FallbackTypes[id]]

JsNullDetail == [id |-> 0, name |-> "null"]

\* The result lists GET /type may carry: the types in any order, none twice.
RECURSIVE ListsOver(_)
ListsOver(ids) ==
    {<<>>} \cup UNION {{<<TypeRef(id)>> \o rest : rest \in ListsOver(ids \ {id})} : id \in ids}

\* .filter(type => type !== null)
NotNullDetails(details) == SelectSeq(details, LAMBDA d : d # JsNullDetail)

\* .sort((a, b) => a.id - b.id): a stable sort, by insertion
RECURSIVE InsertById(_, _)
InsertById(sorted, d) ==
    IF sorted = <<>> THEN <<d>>
    ELSE IF d.id - sorted[Len(sorted)].id >= 0 THEN Append(sorted, d)
    ELSE Append(InsertById(SubSeq(sorted, 1, Len(sorted) - 1), d), sorted[Len(sorted)])

RECURSIVE InsertedAll(_, _)
InsertedAll(sorted, details) ==
    IF details = <<>> THEN sorted
    ELSE InsertedAll(InsertById(sorted, details[1]), SubSeq(details, 2, Len(details)))

ListOrder(details) == details

SortById(details) == InsertedAll(<<>>, details)

\* What Promise.all resolves with: a value per reference, in the order of
\* the references.
TypeDetails(c) ==
    [k \in DOMAIN c.refs |->
        IF c.got[k] = "ok" THEN TypeDetail(extractIdFromUrl(c.refs[k].url)) ELSE JsNullDetail]

\* The call after Promise.all: validTypes, the throw for none, the catch
\* block (an ApiError is thrown on).
TypesSettled(c) ==
    LET validTypes == SortById(NotNullDetails(TypeDetails(c))) IN
    [c EXCEPT !.phase = "done",
              !.result = IF Len(validTypes) = 0
                         THEN [state |-> "rejected",
                               error |-> [message |-> "No se pudieron cargar los tipos de Pokemon",
                                          type |-> "server"]]
                         ELSE [state |-> "resolved", value |-> validTypes]]

TypesFrame ==
    UNCHANGED <<timers, nextTimerId, filterVars, favVars, pokeVars, settled, debounceVars,
                cardVars, darkVars, themeVars, now>>

InitTypes ==
    /\ timers = {}
    /\ nextTimerId = 1
    /\ ev = [op |-> "init"]
    /\ FilterRest
    /\ FavRest
    /\ PokeRest
    /\ ApiRest
    /\ DebounceRest
    /\ UiRest

\* getAllTypes() up to its first await.
StartGetAllTypes ==
    /\ typesCall.phase \in {"idle", "done"}
    /\ typesCall' = [NoTypesCall EXCEPT !.phase = "list"]
    /\ ev' = [op |-> "getAllTypes"]
    /\ TypesFrame

\* GET /type answers: the map starts every detail request; Promise.all of
\* no promise resolves at once.
TypeListResponseOk(results) ==
    /\ typesCall.phase = "list"
    /\ LET c == [typesCall EXCEPT !.phase = "details", !.refs = results, !.listOk = TRUE,
                                  !.got = [k \in DOMAIN results |-> "pending"]]
       IN  typesCall' = IF results = <<>> THEN TypesSettled(c) ELSE c
    /\ ev' = [op |-> "typeList"]
    /\ TypesFrame

\* GET /type fails: the interceptor's ApiError goes through the catch block.
TypeListResponseFailed(err) ==
    /\ typesCall.phase = "list"
    /\ typesCall' = [typesCall EXCEPT !.phase = "done",
                                      !.result = [state |-> "rejected", error |-> err]]
    /\ ev' = [op |-> "typeListFailed"]
    /\ TypesFrame

\* GET /type/{id} of the k-th reference answers or fails; the last one to
\* do so lets Promise.all resolve.
TypeDetailResponse(k, ok) ==
    /\ typesCall.phase = "details"
    /\ k \in DOMAIN typesCall.got
    /\ typesCall.got[k] = "pending"
    /\ LET c == [typesCall EXCEPT !.got[k] = IF ok THEN "ok" ELSE "failed",
                                  !.order = Append(@, k)]
       IN  typesCall' = IF \E j \in DOMAIN c.got : c.got[j] = "pending"
                        THEN c ELSE TypesSettled(c)
    /\ ev' = [op |-> "typeDetail", k |-> k, ok |-> ok]
    /\ TypesFrame

TypesNext ==
    \/ StartGetAllTypes
    \/ \E results \in ListsOver(TypeIds) : TypeListResponseOk(results)
    \/ \E err \in RequestErrors : TypeListResponseFailed(err)
    \/ \E k \in 1..MaxTypes, ok \in BOOLEAN : TypeDetailResponse(k, ok)

SpecTypes == InitTypes /\ [][TypesNext]_vars

\* Ids of the references whose detail request succeeded.
LoadedIds(c) == {extractIdFromUrl(c.refs[k].url) : k \in {j \in DOMAIN c.got : c.got[j] = "ok"}}

(***************************************************************************)
(* C20.  getAllTypes tolerates partial failure: when the list request and  *)
(* at least one detail request succeed it resolves with exactly the types  *)
(* whose detail request succeeded, each once, in ascending order of id,    *)
(* whatever the order the detail requests completed in; it rejects only    *)
(* when the list request failed or every detail request failed.            *)
(***************************************************************************)
C20_PartialFailure ==
    typesCall.phase = "done" =>
        LET c == typesCall
            r == c.result
        IN  /\ (c.listOk /\ LoadedIds(c) # {}) =>
                  /\ r.state = "resolved"
                  /\ {r.value[n].id : n \in DOMAIN r.value} = LoadedIds(c)
                  /\ Len(r.value) = Cardinality(LoadedIds(c))
                  /\ \A n \in DOMAIN r.value : r.value[n] = TypeDetail(r.value[n].id)
                  /\ \A n \in 1..(Len(r.value) - 1) : r.value[n].id < r.value[n + 1].id
            /\ r.state = "rejected" =>
                  \/ ~c.listOk
                  \/ \A k \in DOMAIN c.got : c.got[k] = "failed"
            /\ r.state \in {"resolved", "rejected"}

\* Three types listed out of order, the middle request failed, the last
\* request answered first: two types are returned.
C20_Witness ==
    /\ typesCall.phase = "done"
    /\ typesCall.result.state = "resolved"
    /\ Len(typesCall.refs) = 3
    /\ extractIdFromUrl(typesCall.refs[1].url) > extractIdFromUrl(typesCall.refs[3].url)
    /\ typesCall.got = <<"ok", "failed", "ok">>
    /\ typesCall.order[1] = 3
    /\ Len(typesCall.result.value) = 2

=============================================================================
